---- MODULE Spec2Model ----
(***************************************************************************)
(* A model of the warehouse expense assistant (MystArx/v3): the reference  *)
(* data index (tools/data_validator.py), the store boundary                *)
(* (tools/core_tools.py), the filter resolver and command refiner          *)
(* (agents/refiner_agent.py), the aggregator and listing tools             *)
(* (tools/hardcoded_query.py, tools/warehouse_tools.py) and the            *)
(* interactive loop (main.py).                                             *)
(*                                                                         *)
(* Python strings are TLA+ strings; TLC's Len, SubSeq, Head, Tail and \o   *)
(* work on them, so the string code of the program is translated           *)
(* character by character.                                                 *)
(***************************************************************************)
EXTENDS Integers, Sequences, FiniteSets, TLC

VARIABLES
    store,            \* the relational store behind sql_executor
    data_validator,   \* the DataValidator singleton (its five fields)
    init_call,        \* outcome of the last DataValidator.initialize call
    refine,           \* the last agent_invoke call: inputs, result, backend use
    agg,              \* the last call of a tool and its result
    session           \* the interactive loop of main(): history, executor calls

vars == <<store, data_validator, init_call, refine, agg, session>>

(***************************************************************************)
(* Python string primitives                                                *)
(***************************************************************************)

Min(S) == CHOOSE x \in S : \A y \in S : x <= y

Max(S) == CHOOSE x \in S : \A y \in S : y <= x

Ch(s, i) == SubSeq(s, i, i)

Chars(s) == {Ch(s, i) : i \in 1..Len(s)}

LowerLetters == "abcdefghijklmnopqrstuvwxyz"

UpperLetters == "ABCDEFGHIJKLMNOPQRSTUVWXYZ"

DigitChars == "0123456789"

\* str.strip() with no argument strips whitespace
Whitespace == {" ", "\n", "\t", "\r"}

\* the characters the model uses, in code-point order (Python compares
\* strings by code point)
AsciiOrder == "\t\n\r !\"'(),-.0123456789:;?ABCDEFGHIJKLMNOPQRSTUVWXYZ[]_abcdefghijklmnopqrstuvwxyz{}"

UpperOf == [c \in Chars(LowerLetters) |->
              Ch(UpperLetters, CHOOSE i \in 1..Len(LowerLetters) : Ch(LowerLetters, i) = c)]

RECURSIVE Upper(_)
\* str.upper()
Upper(s) ==
    IF Len(s) <= 1 THEN (IF s \in DOMAIN UpperOf THEN UpperOf[s] ELSE s)
    ELSE LET h == Len(s) \div 2
         IN  Upper(SubSeq(s, 1, h)) \o Upper(SubSeq(s, h + 1, Len(s)))

LowerOf == [c \in Chars(UpperLetters) |->
              Ch(LowerLetters, CHOOSE i \in 1..Len(UpperLetters) : Ch(UpperLetters, i) = c)]

RECURSIVE Lower(_)
\* str.lower()
Lower(s) ==
    IF Len(s) <= 1 THEN (IF s \in DOMAIN LowerOf THEN LowerOf[s] ELSE s)
    ELSE LET h == Len(s) \div 2
         IN  Lower(SubSeq(s, 1, h)) \o Lower(SubSeq(s, h + 1, Len(s)))

\* str.strip(chars): drop leading and trailing characters of the set
StripChars(s, cs) ==
    LET Span(keep) == IF keep = {} THEN "" ELSE SubSeq(s, Min(keep), Max(keep))
    IN  Span({i \in 1..Len(s) : Ch(s, i) \notin cs})

Strip(s) == StripChars(s, Whitespace)

\* str.isdigit(), on the ASCII digits
DigitSet == Chars(DigitChars)

IsDigit(s) == s # "" /\ \A i \in 1..Len(s) : Ch(s, i) \in DigitSet

StartsWith(s, p) == Len(p) <= Len(s) /\ SubSeq(s, 1, Len(p)) = p

\* the positions at which sub occurs in s
Occurrences(s, sub) ==
    {i \in 1..(Len(s) - Len(sub) + 1) : SubSeq(s, i, i + Len(sub) - 1) = sub}

\* `sub in s`
Contains(s, sub) ==
    \E i \in 1..(Len(s) - Len(sub) + 1) : SubSeq(s, i, i + Len(sub) - 1) = sub

RECURSIVE Split(_, _)
\* str.split(sep): the pieces between the occurrences of sep
Split(s, sep) ==
    LET At(i)    == <<SubSeq(s, 1, i - 1)>> \o Split(SubSeq(s, i + Len(sep), Len(s)), sep)
        Cut(occ) == IF occ = {} THEN <<s>> ELSE At(Min(occ))
    IN  Cut(Occurrences(s, sep))

\* str.split(sep, 1): split at the first occurrence only
Split1(s, sep) ==
    LET At(i)    == <<SubSeq(s, 1, i - 1), SubSeq(s, i + Len(sep), Len(s))>>
        Cut(occ) == IF occ = {} THEN <<s>> ELSE At(Min(occ))
    IN  Cut(Occurrences(s, sep))

\* str.rsplit(sep, 1): split at the last occurrence only
RSplit1(s, sep) ==
    LET At(i)    == <<SubSeq(s, 1, i - 1), SubSeq(s, i + Len(sep), Len(s))>>
        Cut(occ) == IF occ = {} THEN <<s>> ELSE At(Max(occ))
    IN  Cut(Occurrences(s, sep))

RECURSIVE Replace(_, _, _)
\* str.replace(old, new), old non-empty
Replace(s, old, new) ==
    LET At(i)    == SubSeq(s, 1, i - 1) \o new
                    \o Replace(SubSeq(s, i + Len(old), Len(s)), old, new)
        Cut(occ) == IF occ = {} THEN s ELSE At(Min(occ))
    IN  Cut(Occurrences(s, old))

RECURSIVE Join(_, _)
\* sep.join(list)
Join(sep, list) ==
    IF list = <<>> THEN ""
    ELSE IF Len(list) = 1 THEN list[1]
    ELSE list[1] \o sep \o Join(sep, Tail(list))

\* ord(c)
Ord == [c \in Chars(AsciiOrder) |->
            CHOOSE i \in 1..Len(AsciiOrder) : Ch(AsciiOrder, i) = c]

\* a < b as Python compares strings
StrLess(a, b) ==
    LET At(i)     == Ord[Ch(a, i)] < Ord[Ch(b, i)]
        Cmp(diff) == IF diff = {} THEN Len(a) < Len(b) ELSE At(Min(diff))
    IN  Cmp({i \in 1..Min({Len(a), Len(b)}) : Ch(a, i) # Ch(b, i)})

RECURSIVE Sorted(_)
\* sorted(list(a_set)): the strings of S in ascending order
Sorted(S) ==
    IF S = {} THEN <<>>
    ELSE LET First(m) == <<m>> \o Sorted(S \ {m})
         IN  First(CHOOSE x \in S : \A y \in S \ {x} : StrLess(x, y))

RECURSIVE NatToStr(_)
\* str(n) for a natural number
NatToStr(n) ==
    IF n < 10 THEN Ch(DigitChars, n + 1)
    ELSE NatToStr(n \div 10) \o Ch(DigitChars, (n % 10) + 1)

Range(f) == {f[i] : i \in DOMAIN f}

(***************************************************************************)
(* tools/region_map.py                                                     *)
(***************************************************************************)

\* the default table; the optional region_map.json override is absent
REGION_MAP ==
    LET Region(cities, region) == [c \in cities |-> region]
    IN  Region({"ALWAR", "AMBALA", "BAHADURGARH", "BAMNOLI", "BAREILLY", "BAWAL",
                "CHARKHI DADRI", "DHARUHERA", "FARIDABAD", "FAROOQNAGAR", "GHAZIABAD",
                "GREATER NOIDA", "GURGAON", "GURUGRAM", "HAPUR", "HARIDWAR", "JAIPUR",
                "JHAJJAR", "KARNAL", "LUCKNOW", "MANESAR", "MERTA CITY", "MOHALI",
                "PATAUDI", "RAJPURA", "REWARI", "SHRI GANGA NAGAR", "SONIPAT",
                "UDAIPURI"}, "NORTH")
        @@ Region({"ASANSOL", "BHUBANESWAR", "GUWAHATI", "KOLKATA", "PATNA", "RANCHI"},
                  "EAST")
        @@ Region({"AHMEDABAD", "BHIWANDI", "INDORE", "KOHLAPUR", "RAJKOT", "SURAT"},
                  "WEST")
        @@ Region({"BANGALORE", "CHENNAI", "COIMBATORE", "HYDERABAD", "MADURAI",
                   "TIRUPATI", "TRICHY"}, "SOUTH")

REGION_UNKNOWN == "REGION_UNKNOWN"

get_region_for_city(city) ==
    IF city = "" THEN REGION_UNKNOWN
    ELSE LET normalized_city == Upper(Strip(city))
         IN  IF normalized_city \in DOMAIN REGION_MAP
             THEN REGION_MAP[normalized_city]
             ELSE REGION_UNKNOWN

get_all_regions == Range(REGION_MAP)

(***************************************************************************)
(* tools/core_tools.py: the store boundary                                 *)
(***************************************************************************)

\* a list that names the data statements only
FORBIDDEN_DML_KEYWORDS == {"DELETE", "UPDATE", "INSERT", "REPLACE"}

FORBIDDEN_SQL_KEYWORDS ==
    {"DELETE", "DROP", "UPDATE", "INSERT", "ALTER",
     "TRUNCATE", "CREATE", "REPLACE", "GRANT", "REVOKE"}

DB_CONNECTION_MAP == {"INVOICES", "WAREHOUSE"}

\* the statements the program sends
WarehouseCodeQuery == "SELECT warehouse_code FROM warehouse_info;"

WarehouseDataQuery == "SELECT id, warehouse_code FROM warehouse_info;"

FinalQueryHead ==
    "\n        SELECT\n            SUM(total_amount) AS Total_Expenses_Including_GST\n        FROM\n            invoice_info\n        WHERE\n            warehouse_id IN ("

FinalQuery(wh_id_list_str) == FinalQueryHead \o wh_id_list_str \o ");\n    "

ListingQueryHead ==
    "\n        SELECT warehouse_code, warehouse_name, address_1, pin_code\n        FROM warehouse_info\n        WHERE warehouse_code IN "

ListingQuery(placeholders) ==
    ListingQueryHead \o placeholders \o "\n        ORDER BY warehouse_code;\n    "

\* build_parameterized_in_clause: the placeholder string (the values are
\* passed as they are)
build_parameterized_in_clause(values) ==
    IF values = <<>> THEN "()"
    ELSE "(" \o Join(", ", [i \in 1..Len(values) |-> "?"]) \o ")"

\* repr() of a str without quote or backslash characters
PyRepr(s) == "'" \o s \o "'"

\* str() of a list of column names
PyListStr(names) == "[" \o Join(", ", [i \in 1..Len(names) |-> PyRepr(names[i])]) \o "]"

\* the total_amount of the invoices of each warehouse id (invoice_info)
RECURSIVE SumTotals(_)
SumTotals(ids) ==
    LET total_amount(id) == IF IsDigit(id) THEN 100 * Len(id) + Ord[Ch(id, 1)] ELSE 0
    IN  IF ids = <<>> THEN 0 ELSE total_amount(Head(ids)) + SumTotals(Tail(ids))

\* The answer of the database to a statement: [ok, columns, rows], each row a
\* sequence of raw cell texts.  Rows come in id order.
RunQuery(sql_query, params, st) ==
    LET code(id) == (CHOOSE r \in st.master : r[1] = id)[2]
        Codes(ids) ==
            [ok |-> TRUE, columns |-> <<"warehouse_code">>,
             rows |-> [i \in 1..Len(ids) |-> <<code(ids[i])>>],
             reprs |-> [i \in 1..Len(ids) |-> <<PyRepr(code(ids[i]))>>]]
        Data(ids) ==
            [ok |-> TRUE, columns |-> <<"id", "warehouse_code">>,
             rows |-> [i \in 1..Len(ids) |-> <<ids[i], code(ids[i])>>],
             reprs |-> [i \in 1..Len(ids) |-> <<PyRepr(ids[i]), PyRepr(code(ids[i]))>>]]
        Total(sum) ==
            [ok |-> TRUE, columns |-> <<"Total_Expenses_Including_GST">>,
             rows |-> <<<<sum>>>>,
             reprs |-> <<<<"Decimal('" \o sum \o "')">>>>]
        Listing(hit) ==
            [ok |-> TRUE,
             columns |-> <<"warehouse_code", "warehouse_name", "address_1", "pin_code">>,
             rows |-> [i \in 1..Len(hit) |-> <<hit[i], "WH " \o hit[i]>>],
             reprs |-> [i \in 1..Len(hit) |-> <<PyRepr(hit[i]), PyRepr("WH " \o hit[i])>>]]
    IN  IF sql_query = WarehouseCodeQuery
        THEN Codes(Sorted({r[1] : r \in st.master}))
        ELSE IF sql_query = WarehouseDataQuery
        THEN Data(Sorted({r[1] : r \in st.master}))
        ELSE IF StartsWith(sql_query, FinalQueryHead)
        THEN Total(NatToStr(SumTotals(Split(
                 Split1(SubSeq(sql_query, Len(FinalQueryHead) + 1, Len(sql_query)),
                        ")")[1], ", "))))
        ELSE IF StartsWith(sql_query, ListingQueryHead)
        THEN \* the default collation compares without case and trailing spaces
             Listing(Sorted({r[2] : r \in {x \in st.master :
                                Upper(Strip(x[2])) \in Range(params)}}))
        ELSE IF StartsWith(Upper(Strip(sql_query)), "SET ")
        THEN \* executed; it has no result set, so fetchall() raises
             [ok |-> FALSE, error |-> "Cursor doesn't have a result set"]
        ELSE [ok |-> FALSE, error |-> "You have an error in your SQL syntax"]

FormatRow(db_target, row, repr) ==
    IF db_target = "WAREHOUSE" /\ Len(row) >= 2
    THEN "('" \o Strip(row[1]) \o "', '" \o Strip(row[2]) \o "')\n"
    ELSE \* str(row) of a tuple, from the repr of its cells
         IF Len(repr) = 1 THEN "(" \o repr[1] \o ",)\n"
         ELSE "(" \o Join(", ", repr) \o ")\n"

RECURSIVE FormatRows(_, _, _)
FormatRows(db_target, rows, reprs) ==
    IF rows = <<>> THEN ""
    ELSE FormatRow(db_target, Head(rows), Head(reprs))
         \o FormatRows(db_target, Tail(rows), Tail(reprs))

\* sql_executor(sql_query, db_target, params): the string it returns; a
\* refused connection raises mariadb.Error, a fault inside the driver any
\* other exception
sql_executor(sql_query, db_target, params, st) ==
    IF db_target \notin DB_CONNECTION_MAP
    THEN "ERROR: Invalid database name: " \o db_target
         \o ". Must be one of: ['INVOICES', 'WAREHOUSE']"
    ELSE IF LET Forbidden(query_upper) ==
                    \E keyword \in FORBIDDEN_SQL_KEYWORDS : Contains(query_upper, keyword)
            IN  Forbidden(Strip(Upper(sql_query)))
    THEN "ERROR: Query rejected. Only read-only (SELECT) operations are permitted."
    ELSE LET Formatted(answer) ==
                 IF ~answer.ok
                 THEN "DATABASE ERROR on " \o db_target \o ": " \o answer.error
                 ELSE "Columns: " \o PyListStr(answer.columns) \o "\nRows:\n"
                      \o FormatRows(db_target, answer.rows, answer.reprs)
             Executed(status) ==
                 IF status = "down"
                 THEN "DATABASE ERROR on " \o db_target
                      \o ": Can't connect to server on 'localhost' (111)"
                 ELSE IF status = "fault"
                 THEN "UNEXPECTED ERROR: connection object is not usable"
                 ELSE Formatted(RunQuery(sql_query, params, st))
         IN  Executed(IF db_target = "WAREHOUSE" THEN st.warehouse_db ELSE st.invoices_db)

\* what a sql_executor call does at the store: whether mariadb.connect is
\* called, and the statements cursor.execute receives.  A fault inside the
\* driver may come before or after the statement is passed on; the model
\* takes the case in which it was passed on.
sql_executor_effects(sql_query, db_target, params, st) ==
    IF db_target \notin DB_CONNECTION_MAP
    THEN [connect |-> FALSE, executed |-> <<>>]
    ELSE IF LET Forbidden(query_upper) ==
                    \E keyword \in FORBIDDEN_SQL_KEYWORDS : Contains(query_upper, keyword)
            IN  Forbidden(Strip(Upper(sql_query)))
    THEN [connect |-> FALSE, executed |-> <<>>]
    ELSE LET Connected(status) ==
                 IF status = "down" THEN [connect |-> TRUE, executed |-> <<>>]
                 ELSE [connect |-> TRUE,
                       executed |-> <<[sql |-> sql_query, target |-> db_target,
                                       params |-> params]>>]
         IN  Connected(IF db_target = "WAREHOUSE" THEN st.warehouse_db
                       ELSE st.invoices_db)

\* a validation that looks at the first identifier only
validate_first_warehouse_id(warehouse_ids) ==
    /\ warehouse_ids # <<>>
    /\ IsDigit(Strip(warehouse_ids[1]))

\* validate_warehouse_ids
validate_warehouse_ids(warehouse_ids) ==
    /\ warehouse_ids # <<>>
    /\ \A i \in 1..Len(warehouse_ids) : IsDigit(Strip(warehouse_ids[i]))

\* an extraction that keeps the first word of the city only
extract_first_word_from_warehouse_code(warehouse_code) ==
    Upper(Split(Strip(RSplit1(Strip(warehouse_code), "-")[1]), " ")[1])

\* extract_city_from_warehouse_code
extract_city_from_warehouse_code(warehouse_code) ==
    LET CityOf(code) == IF ~Contains(code, "-") THEN Upper(code)
                        ELSE Upper(Strip(RSplit1(code, "-")[1]))
    IN  CityOf(Strip(warehouse_code))

(***************************************************************************)
(* The master data the model draws from, and the store's states            *)
(***************************************************************************)

\* rows (id, warehouse_code) of warehouse_info: well-formed codes in cities
\* the region table maps, a mixed-case padded code, a code without a hyphen
\* (in a city the table does not map, on a row whose id is not numeric) and
\* a code whose city part is empty
MasterPool ==
    {<<"1", "JAIPUR-58">>, <<"2", "GREATER NOIDA-62">>, <<"3", "CHENNAI-16">>,
     <<"5", "Jaipur-7 ">>, <<"W6", "DELHI">>, <<"7", "-5">>}

DbStatus == {"up", "down", "fault"}

Stores ==
    [warehouse_db : DbStatus, invoices_db : DbStatus, master : SUBSET MasterPool]

NoCall == [outcome |-> "none", error |-> "", sent |-> <<>>]

\* no agent_invoke call, no tool call, no session in progress
Idle == [phase |-> "idle"]

(***************************************************************************)
(* difflib.get_close_matches, as agents/refiner_agent.py and               *)
(* tools/data_validator.py call it                                         *)
(***************************************************************************)

\* the common blocks of a and b that cannot be extended to the left, as
\* <<length, start in a, start in b>>
MatchRuns(a, b) ==
    {<<Max({k \in 1..Min({Len(a) - i, Len(b) - j}) + 1 :
              SubSeq(a, i, i + k - 1) = SubSeq(b, j, j + k - 1)}), i, j>> :
        <<i, j>> \in {p \in (1..Len(a)) \X (1..Len(b)) :
                        /\ Ch(a, p[1]) = Ch(b, p[2])
                        /\ (p[1] = 1 \/ p[2] = 1 \/ Ch(a, p[1] - 1) # Ch(b, p[2] - 1))}}

\* SequenceMatcher.find_longest_match: the longest block, of those the one
\* starting earliest in a, of those the one starting earliest in b
find_longest_match(a, b) ==
    LET Best(runs) ==
            CHOOSE r \in runs : \A q \in runs :
                \/ q[1] < r[1]
                \/ q[1] = r[1] /\ (r[2] < q[2] \/ (r[2] = q[2] /\ r[3] <= q[3]))
    IN  Best(MatchRuns(a, b))

RECURSIVE MatchedCharacters(_, _)
\* the total size of SequenceMatcher(None, a, b).get_matching_blocks()
MatchedCharacters(a, b) ==
    IF MatchRuns(a, b) = {} THEN 0
    ELSE LET Around(k, i, j) ==
                 k + MatchedCharacters(SubSeq(a, 1, i - 1), SubSeq(b, 1, j - 1))
                   + MatchedCharacters(SubSeq(a, i + k, Len(a)), SubSeq(b, j + k, Len(b)))
             Block(r) == Around(r[1], r[2], r[3])
         IN  Block(find_longest_match(a, b))

\* SequenceMatcher.ratio() = 2.0 * M / T, kept as the pair <<2M, T>>
Ratio(a, b) ==
    IF Len(a) + Len(b) = 0 THEN <<1, 1>>
    ELSE <<2 * MatchedCharacters(a, b), Len(a) + Len(b)>>

\* (score, x) < (score, y) as heapq.nlargest compares its pairs
ScoredLess(rx, x, ry, y) ==
    \/ rx[1] * ry[2] < ry[1] * rx[2]
    \/ rx[1] * ry[2] = ry[1] * rx[2] /\ StrLess(x, y)

RECURSIVE LargestFirst(_, _)
\* the strings of S from the best score down
LargestFirst(S, word) ==
    IF S = {} THEN <<>>
    ELSE LET First(m) == <<m>> \o LargestFirst(S \ {m}, word)
         IN  First(CHOOSE x \in S : \A y \in S \ {x} :
                       ScoredLess(Ratio(y, word), y, Ratio(x, word), x))

\* a get_close_matches that returns every close match
get_every_close_match(word, possibilities, n, cutoff_pct) ==
    LargestFirst({x \in Range(possibilities) :
                    100 * Ratio(x, word)[1] >= cutoff_pct * Ratio(x, word)[2]}, word)

\* get_close_matches(word, possibilities, n, cutoff)
get_close_matches(word, possibilities, n, cutoff_pct) ==
    LET Top(ranked) == SubSeq(ranked, 1, Min({n, Len(ranked)}))
        Ranked(close)  == Top(LargestFirst(close, word))
        \* ratio >= cutoff, the cutoff in hundredths
        Close(r)       == 100 * r[1] >= cutoff_pct * r[2]
    IN  Ranked({x \in Range(possibilities) : Close(Ratio(x, word))})

(***************************************************************************)
(* tools/data_validator.py                                                 *)
(***************************************************************************)

\* DataValidator.__init__
NewDataValidator ==
    [valid_regions |-> {}, valid_cities |-> {}, valid_warehouses |-> {},
     warehouse_to_city |-> <<>>, is_initialized |-> FALSE]

\* the warehouse codes initialize() reads out of sql_executor's text
ParsedWarehouseCodes(raw_data) ==
    LET Body(lines) == {Strip(lines[i]) : i \in 3..Len(lines)}
        kept  == {line \in Body(Split(raw_data, "\n")) : line # "" /\ line # "()"}
        codes == {StripChars(line, {"(", ")", "'", ",", "\"", " "}) : line \in kept}
    IN  {Upper(warehouse_code) : warehouse_code \in codes \ {""}}

\* an initialize() that records a city for every code
HasCityAlways(warehouse_code) == TRUE

\* whether initialize() records a city for the code
HasCity(warehouse_code) == extract_city_from_warehouse_code(warehouse_code) # ""

\* the body of initialize() past its guard: the regions, the master query,
\* the codes and their cities
LoadReferenceIndex(dv, st) ==
    LET sent == <<[sql |-> WarehouseCodeQuery, target |-> "WAREHOUSE"]>>
        Mapped(loaded, codes, city) ==
            [dv |-> [loaded EXCEPT
                       !.valid_warehouses = @ \cup codes,
                       !.valid_cities = @ \cup Range(city),
                       !.warehouse_to_city =
                           [c \in (DOMAIN @) \cup (DOMAIN city) |->
                               IF c \in DOMAIN city THEN city[c] ELSE @[c]],
                       !.is_initialized = TRUE],
             call |-> [outcome |-> "returned", error |-> "", sent |-> sent]]
        Indexed(loaded, codes) ==
            Mapped(loaded, codes,
                   [c \in {w \in codes : HasCity(w)} |->
                       Upper(extract_city_from_warehouse_code(c))])
        Fetched(loaded, raw_data) ==
            IF StartsWith(raw_data, "ERROR")
            THEN [dv |-> loaded,
                  call |-> [outcome |-> "raised",
                            error |-> "Cannot initialize DataValidator: database query failed",
                            sent |-> sent]]
            ELSE Indexed(loaded, ParsedWarehouseCodes(raw_data))
    IN  Fetched([dv EXCEPT !.valid_regions = get_all_regions],
                sql_executor(WarehouseCodeQuery, "WAREHOUSE", <<>>, st))

\* an initialize() without the guard: every call loads the index again
initialize_again(dv, st) == LoadReferenceIndex(dv, st)

\* DataValidator.initialize(): the validator and the call's outcome
initialize(dv, st) ==
    IF dv.is_initialized
    THEN [dv |-> dv, call |-> [outcome |-> "returned", error |-> "", sent |-> <<>>]]
    ELSE LoadReferenceIndex(dv, st)

get_valid_regions(dv) == Sorted(dv.valid_regions)

get_valid_cities(dv) == Sorted(dv.valid_cities)

get_valid_warehouses(dv) == Sorted(dv.valid_warehouses)

validate_region(dv, region) == Upper(Strip(region)) \in dv.valid_regions

validate_city(dv, city) == Upper(Strip(city)) \in dv.valid_cities

validate_warehouse(dv, warehouse) == Upper(Strip(warehouse)) \in dv.valid_warehouses

\* get_city_for_warehouse: None is modelled as ""
get_city_for_warehouse(dv, warehouse_code) ==
    LET key == Upper(Strip(warehouse_code))
    IN  IF key \in DOMAIN dv.warehouse_to_city THEN dv.warehouse_to_city[key] ELSE ""

\* DataValidator.fuzzy_match_city(city_input, threshold), the threshold in
\* hundredths; its default is 0.7
validator_fuzzy_match_city(dv, city_input, threshold_pct) ==
    get_close_matches(Upper(Strip(city_input)), Sorted(dv.valid_cities), 5, threshold_pct)

\* DataValidator.fuzzy_match_warehouse(warehouse_input, threshold); its
\* default is 0.8
validator_fuzzy_match_warehouse(dv, warehouse_input, threshold_pct) ==
    get_close_matches(Upper(Strip(warehouse_input)), Sorted(dv.valid_warehouses), 5,
                      threshold_pct)

(***************************************************************************)
(* The reference index and its store: initialize() against every master    *)
(* set and store state, the store changing in between                      *)
(***************************************************************************)

InitValidator ==
    /\ store \in {s \in Stores : s.invoices_db = "up"}
    /\ data_validator = NewDataValidator
    /\ init_call = NoCall
    /\ refine = Idle
    /\ agg = Idle
    /\ session = Idle

\* a call of data_validator.initialize()
Initialize ==
    /\ LET r == initialize(data_validator, store)
       IN  /\ data_validator' = r.dv
           /\ init_call' = r.call
    /\ UNCHANGED <<store, refine, agg, session>>

\* the master data changes by one row, or the master database goes up or down
StoreChange ==
    /\ init_call.outcome # "none"
    /\ \/ \E row \in MasterPool :
             store' = [store EXCEPT !.master =
                          IF row \in @ THEN @ \ {row} ELSE @ \cup {row}]
       \/ \E s \in DbStatus \ {store.warehouse_db} :
             store' = [store EXCEPT !.warehouse_db = s]
    /\ init_call' = [init_call EXCEPT !.sent = <<>>]
    /\ UNCHANGED <<data_validator, refine, agg, session>>

NextValidator == Initialize \/ StoreChange

SpecValidator == InitValidator /\ [][NextValidator]_vars

(***************************************************************************)
(* Claims about the reference index                                        *)
(***************************************************************************)

\* the master query of the last initialize() call failed or returned no code
MasterQueryFailedOrEmpty ==
    /\ init_call.sent # <<>>
    /\ (store.warehouse_db # "up" \/ store.master = {})

\* C6: initialize() fails with an initialization error and leaves the
\* validator not initialized whenever its master-data query fails or
\* returns zero warehouse codes; it never completes with an empty
\* warehouse set.
C6_InitializeFailsOnBadMasterData ==
    /\ MasterQueryFailedOrEmpty =>
          (init_call.outcome = "raised" /\ ~data_validator.is_initialized)
    /\ data_validator.is_initialized => data_validator.valid_warehouses # {}

\* a code whose only hyphen is its first character: nothing before the last
\* hyphen, so no city
NoCityPart(w) == Head(w) = "-" /\ ~Contains(Tail(w), "-")

\* C7 as stated: after initialize() completes, warehouse_to_city has exactly
\* one entry per member of warehouses, with every value in cities.
C7_TotalMapIntoCities ==
    data_validator.is_initialized =>
        /\ DOMAIN data_validator.warehouse_to_city = data_validator.valid_warehouses
        /\ Range(data_validator.warehouse_to_city) \subseteq data_validator.valid_cities

\* C7 amended: after initialize() completes, every key of warehouse_to_city
\* is a member of warehouses, every value is a member of cities, and the
\* warehouses with an entry are exactly those with a non-empty city part.
C7_MapIntoCities ==
    data_validator.is_initialized =>
        /\ DOMAIN data_validator.warehouse_to_city \subseteq data_validator.valid_warehouses
        /\ Range(data_validator.warehouse_to_city) \subseteq data_validator.valid_cities
        /\ \A w \in data_validator.valid_warehouses :
              w \in DOMAIN data_validator.warehouse_to_city <=> ~NoCityPart(w)

\* initialize() has completed over a master set with mapped, unmapped, hyphen-less
\* and city-less codes
C7_Witness ==
    /\ data_validator.is_initialized
    /\ init_call.outcome = "returned"
    /\ {"-5", "DELHI", "JAIPUR-7", "GREATER NOIDA-62"} \subseteq data_validator.valid_warehouses
    /\ "-5" \notin DOMAIN data_validator.warehouse_to_city
    /\ data_validator.warehouse_to_city["GREATER NOIDA-62"] = "GREATER NOIDA"

(***************************************************************************)
(* tools/hardcoded_query.py and tools/warehouse_tools.py                   *)
(***************************************************************************)

\* a Python argument that is a str, or a list of str
StrArg(s) == [kind |-> "str", s |-> s]

ListArg(items) == [kind |-> "list", items |-> items]

\* dict[key] = value on a dict kept as a sequence of <<key, value>> in
\* insertion order
DictPut(d, key, value) ==
    IF \E i \in 1..Len(d) : d[i][1] = key
    THEN [i \in 1..Len(d) |-> IF d[i][1] = key THEN <<key, value>> ELSE d[i]]
    ELSE Append(d, <<key, value>>)

RECURSIVE ParseWarehouseLines(_, _)
\* the loop of calculate_geographical_expenses over lines[2:]
ParseWarehouseLines(lines, warehouse_codes_map) ==
    IF lines = <<>> THEN warehouse_codes_map
    ELSE LET Put(line, parts) ==
                 IF line = "" \/ Len(parts) # 2
                 THEN ParseWarehouseLines(Tail(lines), warehouse_codes_map)
                 ELSE ParseWarehouseLines(Tail(lines),
                                          DictPut(warehouse_codes_map, parts[1], parts[2]))
             Stripped(split) == [i \in 1..Len(split) |-> Strip(split[i])]
             Parts(clean_line) == Stripped(Split1(clean_line, ","))
             Line(line) ==
                 Put(line, Parts(Replace(Replace(StripChars(line, {"(", ")"}), "'", ""),
                                         "\"", "")))
         IN  Line(Strip(Head(lines)))

\* the id -> code dict built from sql_executor's text
ParseWarehouseData(warehouse_raw_data_str) ==
    LET Rows(lines) == ParseWarehouseLines(SubSeq(lines, 3, Len(lines)), <<>>)
    IN  Rows(Split(warehouse_raw_data_str, "\n"))

\* a filtering loop that matches a code by containment instead of equality
IsMatchContaining(filter_type, filter_value, wh_code) ==
    LET Test(clean_wh_code, city_name) ==
            IF filter_type = "WAREHOUSE" THEN Contains(clean_wh_code, filter_value)
            ELSE IF filter_type = "CITY" THEN city_name = filter_value
            ELSE IF filter_type = "REGION"
            THEN get_region_for_city(city_name) = filter_value
            ELSE FALSE
        Row(clean_wh_code) ==
            Test(clean_wh_code, extract_city_from_warehouse_code(clean_wh_code))
    IN  Row(Upper(Strip(wh_code)))

\* a filtering loop that looks up the region of the whole code instead of
\* the region of its city
IsMatchRegionOfCode(filter_type, filter_value, wh_code) ==
    LET Test(clean_wh_code, city_name) ==
            IF filter_type = "WAREHOUSE" THEN clean_wh_code = filter_value
            ELSE IF filter_type = "CITY" THEN city_name = filter_value
            ELSE IF filter_type = "REGION"
            THEN get_region_for_city(clean_wh_code) = filter_value
            ELSE FALSE
        Row(clean_wh_code) ==
            Test(clean_wh_code, extract_city_from_warehouse_code(clean_wh_code))
    IN  Row(Upper(Strip(wh_code)))

\* is_match of the filtering loop, for one row
IsMatch(filter_type, filter_value, wh_code) ==
    LET Test(clean_wh_code, city_name) ==
            IF filter_type = "WAREHOUSE" THEN clean_wh_code = filter_value
            ELSE IF filter_type = "CITY" THEN city_name = filter_value
            ELSE IF filter_type = "REGION"
            THEN get_region_for_city(city_name) = filter_value
            ELSE FALSE
        Row(clean_wh_code) ==
            Test(clean_wh_code, extract_city_from_warehouse_code(clean_wh_code))
    IN  Row(Upper(Strip(wh_code)))

\* filtered_warehouse_ids: the ids of the matching rows, in dict order
FilterWarehouseIds(filter_type, filter_value, warehouse_codes_map) ==
    SelectSeq([i \in 1..Len(warehouse_codes_map) |-> warehouse_codes_map[i]],
              LAMBDA kv : IsMatch(filter_type, filter_value, kv[2]))

Stmt(sql, target, params) == [sql |-> sql, target |-> target, params |-> params]

Returned(value, matched, sent) ==
    [raised |-> FALSE, value |-> value, matched |-> matched, sent |-> sent]

\* a test that lets every filter type through
AnyFilterType(filter_type) == TRUE

\* the filter types the aggregator knows
KnownFilterType(filter_type) == filter_type \in {"REGION", "CITY", "WAREHOUSE"}

\* calculate_geographical_expenses(filter_type, filter_value): what the call
\* returns or raises, the ids it matched and the statements it sent
calculate_geographical_expenses(filter_type_arg, value_arg, st) ==
    IF value_arg.kind # "str"
    THEN [raised |-> TRUE, value |-> "AttributeError: 'list' object has no attribute 'upper'",
          matched |-> <<>>, sent |-> <<>>]
    ELSE
    LET q1 == Stmt(WarehouseDataQuery, "WAREHOUSE", <<>>)
        Normalized(filter_type, filter_value) ==
            LET Summed(ids, final_query, final_results) ==
                    IF StartsWith(final_results, "ERROR")
                    THEN Returned("ERROR: Failed to calculate expenses: " \o final_results,
                                  ids, <<q1, Stmt(final_query, "INVOICES", <<>>)>>)
                    ELSE Returned("Total expenses (including GST) for " \o filter_type
                                  \o " '" \o filter_value \o "':\nWarehouses matched: "
                                  \o NatToStr(Len(ids)) \o "\n" \o final_results,
                                  ids, <<q1, Stmt(final_query, "INVOICES", <<>>)>>)
                Queried(ids, final_query) ==
                    Summed(ids, final_query, sql_executor(final_query, "INVOICES", <<>>, st))
                Filtered(filtered_warehouse_ids) ==
                    IF filtered_warehouse_ids = <<>>
                    THEN Returned("INFO: No warehouses found matching " \o filter_type
                                  \o " '" \o filter_value
                                  \o "'. Please verify the filter value is correct.",
                                  <<>>, <<q1>>)
                    ELSE IF ~validate_warehouse_ids(filtered_warehouse_ids)
                    THEN Returned("ERROR: Invalid warehouse IDs detected. Query aborted for security.",
                                  filtered_warehouse_ids, <<q1>>)
                    ELSE Queried(filtered_warehouse_ids,
                                 FinalQuery(Join(", ", filtered_warehouse_ids)))
                Keys(pairs) == [i \in 1..Len(pairs) |-> pairs[i][1]]
                Mapped(warehouse_codes_map) ==
                    IF warehouse_codes_map = <<>>
                    THEN Returned("ERROR: No warehouse data found in database.", <<>>, <<q1>>)
                    ELSE Filtered(Keys(FilterWarehouseIds(filter_type, filter_value,
                                                          warehouse_codes_map)))
                Retrieved(warehouse_raw_data_str) ==
                    IF StartsWith(warehouse_raw_data_str, "ERROR")
                    THEN Returned("ERROR: Failed to retrieve warehouse data: "
                                  \o warehouse_raw_data_str, <<>>, <<q1>>)
                    ELSE Mapped(ParseWarehouseData(warehouse_raw_data_str))
            IN  IF ~KnownFilterType(filter_type)
                THEN Returned("ERROR: Invalid filter_type. Must be 'REGION', 'CITY', or 'WAREHOUSE'.",
                              <<>>, <<>>)
                ELSE Retrieved(sql_executor(WarehouseDataQuery, "WAREHOUSE", <<>>, st))
    IN  Normalized(Upper(Strip(filter_type_arg)), Upper(Strip(value_arg.s)))

\* the codes list_warehouses_by_location adds to matched_codes
MatchedCodes(dv, filter_type, normalized_values) ==
    LET Hit(city) ==
            /\ city # ""
            /\ \E i \in 1..Len(normalized_values) :
                  \/ filter_type = "CITY" /\ city = normalized_values[i]
                  \/ filter_type = "REGION"
                     /\ get_region_for_city(city) = normalized_values[i]
    IN  {code \in Range(get_valid_warehouses(dv)) : Hit(get_city_for_warehouse(dv, code))}

\* list_warehouses_by_location(filter_type, filter_values)
list_warehouses_by_location(filter_type_arg, filter_values, dv, st) ==
    LET Normalized(filter_type, normalized_values) ==
            LET Queried(values, query) ==
                    Returned("Found " \o NatToStr(Len(values)) \o " warehouses for "
                             \o filter_type \o " in " \o Join(", ", normalized_values)
                             \o ":\n" \o sql_executor(query, "WAREHOUSE", values, st),
                             values, <<Stmt(query, "WAREHOUSE", values)>>)
                Listed(values) ==
                    Queried(values, ListingQuery(build_parameterized_in_clause(values)))
                Matched(matched_codes) ==
                    IF matched_codes = {}
                    THEN Returned("INFO: No warehouses found for " \o filter_type \o " in "
                                  \o Join(", ", normalized_values) \o ".", <<>>, <<>>)
                    ELSE Listed(Sorted(matched_codes))
            IN  IF filter_type \notin {"CITY", "REGION"}
                THEN Returned("ERROR: Invalid filter_type. Must be 'CITY' or 'REGION'.",
                              <<>>, <<>>)
                ELSE Matched(MatchedCodes(dv, filter_type, normalized_values))
    IN  Normalized(Upper(filter_type_arg),
                   [i \in 1..Len(filter_values) |-> Upper(Strip(filter_values[i]))])

(***************************************************************************)
(* The tools (the aggregator, the listing tool, sql_executor), called with  *)
(* every argument over every master set and store state                    *)
(***************************************************************************)

\* the longest filter_values list the model passes
MaxFilterValues == 2

\* filter_type arguments: the three the aggregator knows, a variant that
\* needs normalising, and one only the details tool knows
FilterTypeInputs == {"REGION", "CITY", "WAREHOUSE", " city", "WAREHOUSE_IDENTIFIER"}

\* filter values: regions, the placeholder of unmapped cities, cities (known,
\* unknown, needing normalisation, empty) and warehouse codes
FilterValuePool ==
    {"NORTH", "SOUTH", "REGION_UNKNOWN", "JAIPUR", " jaipur", "DELHI", "ATLANTIS",
     "", "JAIPUR-58", "GREATER NOIDA-62", "jaipur-7", "-5"}

\* the values a command's filter_values list is made of, by filter type
ListValuePool ==
    [ft \in {"REGION", "CITY", "WAREHOUSE"} |->
        IF ft = "REGION" THEN {"NORTH", "north ", "REGION_UNKNOWN"}
        ELSE IF ft = "CITY" THEN {"JAIPUR", "GREATER NOIDA", "jaipur "}
        ELSE {"JAIPUR-58", "GREATER NOIDA-62", "jaipur-58"}]

RECURSIVE SeqsUpTo(_, _)
\* the sequences over S of length at most n
SeqsUpTo(S, n) ==
    IF n = 0 THEN {<<>>}
    ELSE LET shorter == SeqsUpTo(S, n - 1)
         IN  shorter \cup {Append(q, x) : q \in shorter, x \in S}

FilterValueLists(ft) == SeqsUpTo(ListValuePool[ft], MaxFilterValues)

\* Every operation here reads the invoice database only after the master
\* retrieval has succeeded, so a state with both databases failing behaves as
\* the state with the master database failing.
AggregatorStores == {s \in Stores : s.warehouse_db = "up" \/ s.invoices_db = "up"}

\* startup has loaded the reference index from the master data
LoadedValidator(master) ==
    initialize(NewDataValidator,
               [warehouse_db |-> "up", invoices_db |-> "up", master |-> master]).dv

InitAggregator ==
    /\ store \in AggregatorStores
    /\ data_validator = LoadedValidator(store.master)
    /\ init_call = NoCall
    /\ refine = Idle
    /\ agg = Idle
    /\ session = Idle

\* a call of calculate_geographical_expenses with a string
CalculateExpenses ==
    /\ agg.phase = "idle"
    /\ \E ft \in FilterTypeInputs, v \in FilterValuePool :
          agg' = [phase |-> "done", op |-> "calculate_geographical_expenses",
                  filter_type |-> ft, arg |-> StrArg(v),
                  result |-> calculate_geographical_expenses(ft, StrArg(v), store)]
    /\ UNCHANGED <<store, data_validator, init_call, refine, session>>

\* a call of calculate_geographical_expenses with a command's filter_values
CalculateExpensesOfList ==
    /\ agg.phase = "idle"
    /\ \E ft \in DOMAIN ListValuePool :
       \E vs \in FilterValueLists(ft) :
          agg' = [phase |-> "done", op |-> "calculate_geographical_expenses",
                  filter_type |-> ft, arg |-> ListArg(vs),
                  result |-> calculate_geographical_expenses(ft, ListArg(vs), store)]
    /\ UNCHANGED <<store, data_validator, init_call, refine, session>>

\* a call of list_warehouses_by_location
ListWarehouses ==
    /\ agg.phase = "idle"
    /\ \E ft \in DOMAIN ListValuePool :
       \E vs \in FilterValueLists(ft) :
          agg' = [phase |-> "done", op |-> "list_warehouses_by_location",
                  filter_type |-> ft, arg |-> ListArg(vs),
                  result |-> list_warehouses_by_location(ft, vs, data_validator, store)]
    /\ UNCHANGED <<store, data_validator, init_call, refine, session>>

\* statements passed to sql_executor: the program's own, statements with a
\* forbidden keyword in upper, lower and mixed case, after a SELECT and
\* inside a column name, and a statement that is neither a SELECT nor on
\* the list
SqlPool ==
    {WarehouseCodeQuery, WarehouseDataQuery,
     "DELETE FROM warehouse_info;", "drop table invoice_info;",
     "TrUnCaTe TABLE invoice_info;", " replace into warehouse_info values (9, 'X-1');",
     "SELECT 1; Update invoice_info SET total_amount = 0;",
     "SELECT created_at FROM invoice_info;", "SET @n = 1;", "SELEC 1;"}

\* a call of sql_executor
ExecuteSql ==
    /\ agg.phase = "idle"
    /\ \E sql_query \in SqlPool, db_target \in {"INVOICES", "WAREHOUSE", "ARCHIVE"},
          params \in {<<>>, <<"JAIPUR-58">>} :
          agg' = [phase |-> "done", op |-> "sql_executor",
                  sql_query |-> sql_query, db_target |-> db_target, params |-> params,
                  value |-> sql_executor(sql_query, db_target, params, store),
                  effects |-> sql_executor_effects(sql_query, db_target, params, store)]
    /\ UNCHANGED <<store, data_validator, init_call, refine, session>>

\* a call of extract_city_from_warehouse_code on the code formed from a city
\* without a hyphen (one word or several, in any case, padded, empty) and a
\* number
ExtractCity ==
    /\ agg.phase = "idle"
    /\ \E city \in {"delhi", "Greater Noida", "SHRI GANGA NAGAR", "jaipur ", " Delhi", ""},
          n \in {"1", "62"} :
          agg' = [phase |-> "done", op |-> "extract_city_from_warehouse_code",
                  city |-> city, n |-> n,
                  value |-> extract_city_from_warehouse_code(city \o "-" \o n)]
    /\ UNCHANGED <<store, data_validator, init_call, refine, session>>

\* a getter that hands out the index's own collection
SharedByGetters(op) ==
    IF op = "get_valid_regions" THEN "valid_regions"
    ELSE IF op = "get_valid_cities" THEN "valid_cities"
    ELSE IF op = "get_valid_warehouses" THEN "valid_warehouses"
    ELSE ""

\* the field of the index whose collection the operation returns itself, ""
\* when it returns a new object: sorted(list(...)), get_close_matches and the
\* list comprehension each build a new list, the others return a bool or str
SharedField(op) == ""

\* a call of an operation of the index, or of get_warehouse_details, with an
\* argument in any case, padded, misspelt: the value returned (for the
\* details tool, the statement it sends)
UseIndex ==
    /\ agg.phase = "idle"
    /\ LET dv == data_validator
           get_warehouses_in_city(city) ==
               Sorted({wh \in DOMAIN dv.warehouse_to_city :
                         dv.warehouse_to_city[wh] = Upper(Strip(city))})
           Samples(items) ==
               [i \in 1..Min({10, Len(items)}) |-> "  - " \o items[i]]
           City(warehouse) ==
               IF warehouse \in DOMAIN dv.warehouse_to_city
               THEN dv.warehouse_to_city[warehouse] ELSE "Unknown"
           WarehouseSamples(items) ==
               [i \in 1..Min({10, Len(items)}) |->
                   "  - " \o items[i] \o " (" \o City(items[i]) \o ")"]
           get_report ==
               Join("\n",
                    <<"\n======", "  DATA VALIDATOR REPORT", "======",
                      "Regions: " \o NatToStr(Cardinality(dv.valid_regions)),
                      "Cities: " \o NatToStr(Cardinality(dv.valid_cities)),
                      "Warehouses: " \o NatToStr(Cardinality(dv.valid_warehouses)),
                      "\nSample Regions:">>
                    \o [i \in 1..Cardinality(dv.valid_regions) |->
                           "  - " \o Sorted(dv.valid_regions)[i]]
                    \o <<"\nSample Cities (first 10):">>
                    \o Samples(Sorted(dv.valid_cities))
                    \o <<"\nSample Warehouses (first 10):">>
                    \o WarehouseSamples(Sorted(dv.valid_warehouses))
                    \o <<"======\n">>)
           get_warehouse_details(id) ==
               IF validate_warehouse(dv, id)
               THEN Stmt("warehouse_code = ?", "WAREHOUSE", <<id>>)
               ELSE Stmt("warehouse_name LIKE ?", "WAREHOUSE", <<"%" \o id \o "%">>)
           Value(op, arg) ==
               CASE op = "validate_region" -> validate_region(dv, arg)
                 [] op = "validate_city" -> validate_city(dv, arg)
                 [] op = "validate_warehouse" -> validate_warehouse(dv, arg)
                 [] op = "fuzzy_match_city" -> validator_fuzzy_match_city(dv, arg, 70)
                 [] op = "fuzzy_match_warehouse" -> validator_fuzzy_match_warehouse(dv, arg, 80)
                 [] op = "get_valid_regions" -> get_valid_regions(dv)
                 [] op = "get_valid_cities" -> get_valid_cities(dv)
                 [] op = "get_valid_warehouses" -> get_valid_warehouses(dv)
                 [] op = "get_city_for_warehouse" -> get_city_for_warehouse(dv, arg)
                 [] op = "get_warehouses_in_city" -> get_warehouses_in_city(arg)
                 [] op = "get_report" -> get_report
                 [] op = "get_warehouse_details" -> get_warehouse_details(arg)
       IN  \E op \in {"validate_region", "validate_city", "validate_warehouse",
                       "fuzzy_match_city", "fuzzy_match_warehouse", "get_valid_regions",
                       "get_valid_cities", "get_valid_warehouses",
                       "get_city_for_warehouse", "get_warehouses_in_city", "get_report",
                       "get_warehouse_details"},
              arg \in {" jaipur", "Chennai-16 ", "north", "JAIPUR-5"} :
              agg' = [phase |-> "done", op |-> op, arg |-> arg, value |-> Value(op, arg),
                      shares |-> SharedField(op)]
    /\ UNCHANGED <<store, data_validator, init_call, refine, session>>

\* the caller appends a value to the list a getter has handed out; the index
\* has the value too when the list is the index's own collection
MutateReturnedList ==
    /\ agg.phase = "done"
    /\ agg.op \in {"get_valid_regions", "get_valid_cities", "get_valid_warehouses"}
    /\ "ATLANTIS" \notin Range(agg.value)
    /\ agg' = [agg EXCEPT !.value = Append(@, "ATLANTIS")]
    /\ data_validator' =
          IF agg.shares = "" THEN data_validator
          ELSE [data_validator EXCEPT ![agg.shares] = @ \cup {"ATLANTIS"}]
    /\ UNCHANGED <<store, init_call, refine, session>>

\* the caller has taken the result
AggregatorReturn ==
    /\ agg.phase = "done"
    /\ agg' = Idle
    /\ UNCHANGED <<store, data_validator, init_call, refine, session>>

NextAggregator ==
    \/ CalculateExpenses \/ CalculateExpensesOfList \/ ListWarehouses
    \/ ExecuteSql \/ ExtractCity \/ UseIndex \/ MutateReturnedList \/ AggregatorReturn

SpecAggregator == InitAggregator /\ [][NextAggregator]_vars

(***************************************************************************)
(* Claims about the aggregator and the listing tool                        *)
(***************************************************************************)

\* the text of a code before its last hyphen, the whole code when it has none
CityPart(code) ==
    IF ~Contains(code, "-") THEN code
    ELSE Strip(SubSeq(code, 1, Max({i \in 1..Len(code) : Ch(code, i) = "-"}) - 1))

\* the master rows a filter selects: code equality, city equality, or
\* equality of the city's region
MatchingRows(filter_type, v, master) ==
    {row \in master :
        LET code == Upper(Strip(row[2]))
        IN  \/ filter_type = "WAREHOUSE" /\ code = v
            \/ filter_type = "CITY" /\ CityPart(code) = v
            \/ filter_type = "REGION" /\ get_region_for_city(CityPart(code)) = v}

\* the aggregator has been called with a string value and a filter type it
\* knows, and has read the master rows
AggregatedOneValue ==
    /\ agg.phase = "done"
    /\ agg.op = "calculate_geographical_expenses"
    /\ agg.arg.kind = "str"
    /\ Upper(Strip(agg.filter_type)) \in {"REGION", "CITY", "WAREHOUSE"}
    /\ store.warehouse_db = "up"
    /\ store.master # {}

\* C8: for an aggregation call with a valid filter type and value v
\* (uppercased, trimmed), the matched warehouses are exactly the master rows
\* whose normalized code equals v (WAREHOUSE), whose last-hyphen city equals
\* v (CITY) or whose city's region equals v (REGION), and the 'Warehouses
\* matched' count of the result is the size of that set.
C8_MatchedSetIsFilteredRows ==
    AggregatedOneValue =>
        LET rows == MatchingRows(Upper(Strip(agg.filter_type)),
                                 Upper(Strip(agg.arg.s)), store.master)
        IN  /\ ~agg.result.raised
            /\ Range(agg.result.matched) = {row[1] : row \in rows}
            /\ Len(agg.result.matched) = Cardinality(rows)
            /\ Contains(agg.result.value, "Warehouses matched: ") =>
                   Contains(agg.result.value,
                            "\nWarehouses matched: " \o NatToStr(Cardinality(rows)) \o "\n")

\* REGION = NORTH over NORTH- and SOUTH-mapped warehouses has matched the two
\* NORTH rows and reported a count of 2
C8_Witness ==
    /\ AggregatedOneValue
    /\ agg.filter_type = "REGION"
    /\ agg.arg.s = "NORTH"
    /\ <<"3", "CHENNAI-16">> \in store.master
    /\ store.invoices_db = "up"
    /\ agg.result.matched = <<"1", "2">>
    /\ Contains(agg.result.value, "\nWarehouses matched: 2\n")

\* C9: the aggregator accepts a list of filter values: with filter_type
\* WAREHOUSE and filter_values ["GREATER NOIDA-62", "JAIPUR-58"], both in the
\* master set, the result reports a matched count of 2 and the aggregate is
\* taken over both warehouses' identifiers.
C9_ListOfValuesAggregated ==
    ( /\ agg.phase = "done"
      /\ agg.op = "calculate_geographical_expenses"
      /\ agg.filter_type = "WAREHOUSE"
      /\ agg.arg = ListArg(<<"GREATER NOIDA-62", "JAIPUR-58">>)
      /\ {<<"1", "JAIPUR-58">>, <<"2", "GREATER NOIDA-62">>} \subseteq store.master
      /\ store.warehouse_db = "up"
      /\ store.invoices_db = "up" )
    => /\ ~agg.result.raised
       /\ Contains(agg.result.value, "Warehouses matched: 2")
       /\ Range(agg.result.matched) = {"1", "2"}
       /\ \E i \in 1..Len(agg.result.sent) :
              /\ agg.result.sent[i].target = "INVOICES"
              /\ Contains(agg.result.sent[i].sql, "IN (1, 2)")

\* the master rows a list of values selects, each row once
RowsOfAnyValue(filter_type, filter_values, master) ==
    UNION {MatchingRows(filter_type, Upper(Strip(filter_values[i])), master) :
              i \in 1..Len(filter_values)}

\* a call with a list of values several of which select the same warehouse
SeveralValuesSelectOne ==
    /\ agg.phase = "done"
    /\ agg.op \in {"calculate_geographical_expenses", "list_warehouses_by_location"}
    /\ agg.arg.kind = "list"
    /\ store.warehouse_db = "up"
    /\ store.invoices_db = "up"
    /\ \E i, j \in 1..Len(agg.arg.items) :
          /\ i # j
          /\ MatchingRows(agg.filter_type, Upper(Strip(agg.arg.items[i])), store.master)
               \cap MatchingRows(agg.filter_type, Upper(Strip(agg.arg.items[j])),
                                  store.master) # {}

\* the result reports each selected warehouse once
CountedOnce ==
    LET rows == RowsOfAnyValue(agg.filter_type, agg.arg.items, store.master)
    IN  /\ ~agg.result.raised
        /\ Len(agg.result.matched) = Cardinality(rows)
        /\ Cardinality(Range(agg.result.matched)) = Cardinality(rows)
        /\ \/ Contains(agg.result.value,
                        "Warehouses matched: " \o NatToStr(Cardinality(rows)) \o "\n")
           \/ StartsWith(agg.result.value,
                          "Found " \o NatToStr(Cardinality(rows)) \o " warehouses")

\* C10: a warehouse that matches several of the requested filter values
\* (repeated values, or two entries selecting the same warehouse) is in the
\* matched set once and counted once, for the aggregation and for
\* list_warehouses_by_location.
C10_MatchedOnce ==
    SeveralValuesSelectOne => CountedOnce

\* the part of C10 about list_warehouses_by_location alone
ListingMatchedOnce ==
    (SeveralValuesSelectOne /\ agg.op = "list_warehouses_by_location"
       /\ agg.filter_type \in {"CITY", "REGION"})
    => CountedOnce

\* the aggregator has been called with REGION and one of the regions of the
\* region table, and has read the master rows
AggregatedRegion ==
    /\ AggregatedOneValue
    /\ Upper(Strip(agg.filter_type)) = "REGION"
    /\ Upper(Strip(agg.arg.s)) \in Range(REGION_MAP)

\* the identifiers a CITY filter matches, over the cities the table maps to
\* the region
MatchedByCitiesOf(region, st) ==
    UNION {Range(calculate_geographical_expenses("CITY", StrArg(c), st).matched) :
              c \in {x \in DOMAIN REGION_MAP : REGION_MAP[x] = region}}

\* C11: for every region r and every master set, the warehouses matched by
\* a REGION filter r are the union, over the cities c that map to r, of the
\* warehouses matched by a CITY filter c, and the aggregate query is sent
\* over exactly those identifiers.
C11_RegionIsUnionOfCities ==
    AggregatedRegion =>
        /\ ~agg.result.raised
        /\ Range(agg.result.matched) = MatchedByCitiesOf(Upper(Strip(agg.arg.s)), store)
        /\ \A i \in 1..Len(agg.result.sent) :
               agg.result.sent[i].target = "INVOICES" =>
                   agg.result.sent[i].sql = FinalQuery(Join(", ", agg.result.matched))

\* REGION = NORTH over a master set with two NORTH cities (one of them with
\* two warehouses) and a SOUTH city: the three NORTH rows are matched and
\* the aggregate query has been sent
C11_Witness ==
    /\ AggregatedRegion
    /\ agg.arg.s = "NORTH"
    /\ <<"3", "CHENNAI-16">> \in store.master
    /\ agg.result.matched = <<"1", "2", "5">>
    /\ Len(agg.result.sent) = 2

\* the aggregator has been called with a filter type it knows and a value
\* that selects none of the rows of a readable master store
AggregatedNoMatch ==
    /\ agg.phase = "done"
    /\ agg.op = "calculate_geographical_expenses"
    /\ agg.arg.kind = "str"
    /\ Upper(Strip(agg.filter_type)) \in {"REGION", "CITY", "WAREHOUSE"}
    /\ store.warehouse_db = "up"
    /\ MatchingRows(Upper(Strip(agg.filter_type)), Upper(Strip(agg.arg.s)),
                    store.master) = {}

\* the result is the informational sentinel and no aggregate was queried
InformationalResult ==
    /\ ~agg.result.raised
    /\ StartsWith(agg.result.value, "INFO")
    /\ \A i \in 1..Len(agg.result.sent) : agg.result.sent[i].target # "INVOICES"

\* C12 as stated: when a valid filter matches zero warehouses the aggregator
\* returns a string beginning with INFO, does not raise and does not execute
\* the aggregate invoice query.
C12_NoMatchIsInformational ==
    AggregatedNoMatch => InformationalResult

\* C12 amended: the same when the master store holds at least one warehouse
\* row; over an empty master store the result is the error "No warehouse
\* data found in database." and again no aggregate is queried.
C12_NoMatchAmongRowsIsInformational ==
    AggregatedNoMatch =>
        IF store.master # {} THEN InformationalResult
        ELSE /\ ~agg.result.raised
             /\ agg.result.value = "ERROR: No warehouse data found in database."
             /\ \A i \in 1..Len(agg.result.sent) :
                    agg.result.sent[i].target # "INVOICES"

\* CITY = ATLANTIS over a master set that holds warehouses, none of them in
\* ATLANTIS: the informational sentinel has been returned
C12_Witness ==
    /\ AggregatedNoMatch
    /\ agg.filter_type = "CITY"
    /\ agg.arg.s = "ATLANTIS"
    /\ <<"1", "JAIPUR-58">> \in store.master
    /\ StartsWith(agg.result.value, "INFO: No warehouses found matching CITY 'ATLANTIS'.")
    /\ agg.result.sent = <<Stmt(WarehouseDataQuery, "WAREHOUSE", <<>>)>>

\* the identifier is made of decimal digits only
PurelyNumeric(id) ==
    /\ id # ""
    /\ \A k \in 1..Len(id) :
           Ch(id, k) \in {"0", "1", "2", "3", "4", "5", "6", "7", "8", "9"}

\* the aggregator has returned from a call that matched warehouses
AggregatedMatches ==
    /\ agg.phase = "done"
    /\ agg.op = "calculate_geographical_expenses"
    /\ ~agg.result.raised
    /\ agg.result.matched # <<>>

\* C13: the aggregate invoice query is executed only if every matched
\* warehouse identifier is purely numeric; if a matched identifier is not
\* numeric the operation is rejected with an ERROR result and no query that
\* contains the identifiers reaches the store.
C13_OnlyNumericIdsQueried ==
    AggregatedMatches =>
        IF \A i \in 1..Len(agg.result.matched) : PurelyNumeric(agg.result.matched[i])
        THEN \E i \in 1..Len(agg.result.sent) : agg.result.sent[i].target = "INVOICES"
        ELSE /\ StartsWith(agg.result.value, "ERROR")
             /\ \A i \in 1..Len(agg.result.sent) :
                    /\ agg.result.sent[i].target # "INVOICES"
                    /\ \A k \in 1..Len(agg.result.matched) :
                           ~Contains(agg.result.sent[i].sql, agg.result.matched[k])

\* the unmapped cities' warehouses, one of them on a row whose identifier is
\* not numeric, have been matched and the operation rejected
C13_Witness ==
    /\ AggregatedMatches
    /\ agg.filter_type = "REGION"
    /\ agg.arg.s = "REGION_UNKNOWN"
    /\ agg.result.matched = <<"7", "W6">>
    /\ agg.result.value = "ERROR: Invalid warehouse IDs detected. Query aborted for security."
    /\ agg.result.sent = <<Stmt(WarehouseDataQuery, "WAREHOUSE", <<>>)>>

\* sql_executor has been called with a statement that contains, in some
\* letter case, one of the ten mutating keywords
ForbiddenStatementPassed ==
    /\ agg.phase = "done"
    /\ agg.op = "sql_executor"
    /\ \E keyword \in {"DELETE", "DROP", "UPDATE", "INSERT", "ALTER", "TRUNCATE",
                        "CREATE", "REPLACE", "GRANT", "REVOKE"} :
           Contains(Upper(agg.sql_query), keyword)

\* C14: sql_executor never opens a connection or executes a statement whose
\* text contains, in any letter case, one of DELETE, DROP, UPDATE, INSERT,
\* ALTER, TRUNCATE, CREATE, REPLACE, GRANT, REVOKE: it returns an ERROR string
\* before execution, for either target and with or without params.
C14_ForbiddenStatementNeverExecuted ==
    ForbiddenStatementPassed =>
        /\ ~agg.effects.connect
        /\ agg.effects.executed = <<>>
        /\ StartsWith(agg.value, "ERROR")

\* a lower-case DROP passed with params for the INVOICES target of a store
\* that is up: it has been rejected
C14_Witness ==
    /\ ForbiddenStatementPassed
    /\ agg.sql_query = "drop table invoice_info;"
    /\ agg.db_target = "INVOICES"
    /\ agg.params # <<>>
    /\ store.invoices_db = "up"
    /\ agg.value = "ERROR: Query rejected. Only read-only (SELECT) operations are permitted."

\* C15: every statement that sql_executor executes against the store is a
\* SELECT statement: a statement that is no SELECT is rejected and never
\* executed.
C15_OnlySelectExecuted ==
    (agg.phase = "done" /\ agg.op = "sql_executor") =>
        \A i \in 1..Len(agg.effects.executed) :
            StartsWith(Upper(Strip(agg.effects.executed[i].sql)), "SELECT")

\* the part of C15 that the keyword list gives: no executed statement
\* contains one of the ten keywords
ExecutedStatementsHaveNoKeyword ==
    (agg.phase = "done" /\ agg.op = "sql_executor") =>
        \A i \in 1..Len(agg.effects.executed) :
            \A keyword \in {"DELETE", "DROP", "UPDATE", "INSERT", "ALTER", "TRUNCATE",
                             "CREATE", "REPLACE", "GRANT", "REVOKE"} :
                ~Contains(Upper(agg.effects.executed[i].sql), keyword)

(***************************************************************************)
(* agents/refiner_agent.py                                                 *)
(***************************************************************************)

\* fuzzy_match_city(user_input, valid_cities, threshold)
fuzzy_match_city(user_input, valid_cities, threshold_pct) ==
    get_close_matches(Upper(user_input), valid_cities, 3, threshold_pct)

\* the characters of the class [A-Z\s]
CityClass == Chars(UpperLetters) \cup Whitespace

\* re.search(r'([A-Z\s]+)-(\d+)', s): <<group 1, group 2>> of the leftmost
\* match, <<>> when there is none
SearchCodePattern(s) ==
    LET Groups(h, start, stop) == <<SubSeq(s, start, h - 1), SubSeq(s, h + 1, stop)>>
        At(h) ==
            Groups(h,
                   Min({p \in 1..(h - 1) : \A x \in p..(h - 1) : Ch(s, x) \in CityClass}),
                   Max({e \in (h + 1)..Len(s) :
                          \A x \in (h + 1)..e : Ch(s, x) \in DigitSet}))
        Leftmost(hyphens) == IF hyphens = {} THEN <<>> ELSE At(Min(hyphens))
    IN  Leftmost({h \in 2..(Len(s) - 1) :
                    /\ Ch(s, h) = "-"
                    /\ Ch(s, h - 1) \in CityClass
                    /\ Ch(s, h + 1) \in DigitSet})

\* a repair that proposes nothing
no_code_from_space(query_upper) == ""

\* the code the last-space repair proposes, "" when the query does not end
\* in a space and a number
potential_code_from_space(query_upper) ==
    LET Last(tokens)  == tokens[Len(tokens)]
        Hyphened(parts) == parts[1] \o "-" \o parts[2]
    IN  IF Contains(query_upper, " ") /\ IsDigit(Last(Split(query_upper, " ")))
        THEN Hyphened(RSplit1(query_upper, " "))
        ELSE ""

\* extract_warehouse_code_from_query(query, valid_warehouses); None is ""
extract_warehouse_code_from_query(query, valid_warehouses) ==
    LET Known(potential_code) ==
            IF potential_code \in Range(valid_warehouses) THEN potential_code ELSE ""
        ByPattern(groups) ==
            IF groups = <<>> THEN "" ELSE Known(Strip(groups[1]) \o "-" \o groups[2])
        BySubstring(query_upper, inside) ==
            IF inside # {} THEN valid_warehouses[Min(inside)]
            ELSE ByPattern(SearchCodePattern(query_upper))
        BySpace(query_upper, from_space) ==
            IF from_space # "" /\ from_space \in Range(valid_warehouses) THEN from_space
            ELSE BySubstring(query_upper,
                             {i \in 1..Len(valid_warehouses) :
                                Contains(query_upper, valid_warehouses[i])})
        Normalized(query_upper) ==
            BySpace(query_upper, potential_code_from_space(query_upper))
    IN  Normalized(Strip(Upper(query)))

\* re.sub(r'//.*?(?=\n|$)', '', s): every line loses what follows its first //
RemoveLineComments(s) ==
    LET Uncommented(lines) == [i \in 1..Len(lines) |-> Split1(lines[i], "//")[1]]
    IN  Join("\n", Uncommented(Split(s, "\n")))

RECURSIVE RemoveBlockComments(_)
\* re.sub(r'/\*.*?\*/', '', s, flags=re.DOTALL)
RemoveBlockComments(s) ==
    LET Closed(i, closes) ==
            IF closes = {} THEN s
            ELSE SubSeq(s, 1, i - 1)
                   \o RemoveBlockComments(SubSeq(s, Min(closes) + 2, Len(s)))
        OpenedAt(i) == Closed(i, {j \in Occurrences(s, "*/") : j >= i + 2})
        Opened(opens) == IF opens = {} THEN s ELSE OpenedAt(Min(opens))
    IN  Opened(Occurrences(s, "/*"))

\* whether s is whitespace followed by } or ]
ClosesAfterSpace(s) ==
    LET Closes(rest) == rest # "" /\ Ch(rest, 1) \in {"}", "]"}
    IN  Closes(StripChars(s, Whitespace \cup {"\f"}))

RECURSIVE RejoinCommas(_)
\* the pieces between commas put together again, without the commas that
\* stand before a closing brace or bracket
RejoinCommas(pieces) ==
    IF Len(pieces) = 1 THEN pieces[1]
    ELSE pieces[1] \o (IF ClosesAfterSpace(pieces[2]) THEN "" ELSE ",")
           \o RejoinCommas(Tail(pieces))

\* re.sub(r',(\s*[}\]])', r'\1', s)
RemoveTrailingCommas(s) == RejoinCommas(Split(s, ","))

\* TLA+ strings have no backquote character: the model writes it as ^
Fence == "^^^"

\* clean_json_response(response)
clean_json_response(response) ==
    LET unfenced == Strip(Replace(Replace(Strip(response), Fence \o "json", ""), Fence, ""))
    IN  Strip(RemoveTrailingCommas(RemoveBlockComments(RemoveLineComments(unfenced))))

(***************************************************************************)
(* json.loads on the JSON the model's backend writes: objects, arrays,     *)
(* strings without escapes, non-negative integers, null, true and false.   *)
(* A Python value is a record tagged with its type.                        *)
(***************************************************************************)

PyNone == [t |-> "NoneType"]

PyStr(s) == [t |-> "str", s |-> s]

PyList(items) == [t |-> "list", items |-> items]

\* a dict from its (key, value) pairs: a later pair replaces an earlier one
\* of the same key
PyDict(pairs) ==
    [t |-> "dict",
     f |-> [k \in {pairs[i][1] : i \in 1..Len(pairs)} |->
               pairs[Max({i \in 1..Len(pairs) : pairs[i][1] = k})][2]]]

\* dict.get(key): None when the key is missing
DictGet(d, key) == IF key \in DOMAIN d.f THEN d.f[key] ELSE PyNone

\* the first position from i on that holds no whitespace, Len(s) + 1 if none
SkipWs(s, i) ==
    LET First(stops) == IF stops = {} THEN Len(s) + 1 ELSE Min(stops)
    IN  First({j \in i..Len(s) : Ch(s, j) \notin {" ", "\t", "\n", "\r"}})

Parsed(v, next) == [ok |-> TRUE, v |-> v, next |-> next, msg |-> "", at |-> 0]

\* a JSONDecodeError: its message and the position (from 1) it names
Failed(msg, at) == [ok |-> FALSE, v |-> PyNone, next |-> at, msg |-> msg, at |-> at]

\* a string literal whose opening quote is at i
ScanString(s, i) ==
    LET Body(j, ctrl) ==
            IF ctrl # {} THEN Failed("Invalid control character at", Min(ctrl))
            ELSE Parsed(PyStr(SubSeq(s, i + 1, j - 1)), j + 1)
        ClosedAt(j) == Body(j, {x \in (i + 1)..(j - 1) : Ch(s, x) \in {"\n", "\t", "\r"}})
        Quoted(ends) ==
            IF ends = {} THEN Failed("Unterminated string starting at", i)
            ELSE ClosedAt(Min(ends))
    IN  Quoted({j \in (i + 1)..Len(s) : Ch(s, j) = "\""})

\* a number whose first digit is at i
ScanNumber(s, i) ==
    IF Ch(s, i) = "0" THEN Parsed([t |-> "int", n |-> 0], i + 1)
    ELSE LET Digits(stop) ==
                 Parsed([t |-> "int",
                         n |-> CHOOSE n \in 0..99999 : NatToStr(n) = SubSeq(s, i, stop)],
                        stop + 1)
         IN  Digits(Max({e \in i..Len(s) : \A x \in i..e : Ch(s, x) \in DigitSet}))

\* whether the literal stands at i
LiteralAt(s, i, literal) ==
    i + Len(literal) - 1 <= Len(s) /\ SubSeq(s, i, i + Len(literal) - 1) = literal

RECURSIVE ScanValue(_, _), ScanMembers(_, _, _), ScanItems(_, _, _)
\* scan_once: the value that starts at i
ScanValue(s, i) ==
    IF i > Len(s) THEN Failed("Expecting value", i)
    ELSE IF Ch(s, i) = "\"" THEN ScanString(s, i)
    ELSE IF Ch(s, i) = "{"
    THEN LET Object(j) == IF j <= Len(s) /\ Ch(s, j) = "}" THEN Parsed(PyDict(<<>>), j + 1)
                              ELSE ScanMembers(s, j, <<>>)
         IN  Object(SkipWs(s, i + 1))
    ELSE IF Ch(s, i) = "["
    THEN LET Array(j) == IF j <= Len(s) /\ Ch(s, j) = "]" THEN Parsed(PyList(<<>>), j + 1)
                             ELSE ScanItems(s, j, <<>>)
         IN  Array(SkipWs(s, i + 1))
    ELSE IF LiteralAt(s, i, "null") THEN Parsed(PyNone, i + 4)
    ELSE IF LiteralAt(s, i, "true") THEN Parsed([t |-> "bool", b |-> TRUE], i + 4)
    ELSE IF LiteralAt(s, i, "false") THEN Parsed([t |-> "bool", b |-> FALSE], i + 5)
    ELSE IF Ch(s, i) \in DigitSet THEN ScanNumber(s, i)
    ELSE Failed("Expecting value", i)

\* JSONObject: the members from i on, pairs holding those before
ScanMembers(s, i, pairs) ==
    IF i > Len(s) \/ Ch(s, i) # "\""
    THEN Failed("Expecting property name enclosed in double quotes", i)
    ELSE LET Ended(e, all) ==
                 IF e <= Len(s) /\ Ch(s, e) = "}" THEN Parsed(PyDict(all), e + 1)
                 ELSE IF e > Len(s) \/ Ch(s, e) # ","
                 THEN Failed("Expecting ',' delimiter", e)
                 ELSE ScanMembers(s, SkipWs(s, e + 1), all)
             Valued(key, val) ==
                 IF ~val.ok THEN val
                 ELSE Ended(SkipWs(s, val.next), Append(pairs, <<key.v.s, val.v>>))
             Keyed(key, c) ==
                 IF c > Len(s) \/ Ch(s, c) # ":" THEN Failed("Expecting ':' delimiter", c)
                 ELSE Valued(key, ScanValue(s, SkipWs(s, c + 1)))
             Named(key) == IF ~key.ok THEN key ELSE Keyed(key, SkipWs(s, key.next))
         IN  Named(ScanString(s, i))

\* JSONArray: the items from i on, items holding those before
ScanItems(s, i, items) ==
    LET Ended(e, all) ==
            IF e <= Len(s) /\ Ch(s, e) = "]" THEN Parsed(PyList(all), e + 1)
            ELSE IF e > Len(s) \/ Ch(s, e) # "," THEN Failed("Expecting ',' delimiter", e)
            ELSE ScanItems(s, SkipWs(s, e + 1), all)
        Valued(val) ==
            IF ~val.ok THEN val ELSE Ended(SkipWs(s, val.next), Append(items, val.v))
    IN  Valued(ScanValue(s, i))

\* json.loads(s): the value, or the JSONDecodeError
json_loads(s) ==
    LET Ended(val, e) == IF e <= Len(s) THEN Failed("Extra data", e) ELSE val
        Valued(val)   == IF val.ok THEN Ended(val, SkipWs(s, val.next)) ELSE val
    IN  Valued(ScanValue(s, SkipWs(s, 1)))

\* str(e) of a JSONDecodeError: the message, the line and column of the
\* position, and the position from 0
JSONDecodeErrorText(s, failure) ==
    LET Text(lineno, colno) ==
            failure.msg \o ": line " \o NatToStr(lineno) \o " column " \o NatToStr(colno)
              \o " (char " \o NatToStr(failure.at - 1) \o ")"
        Located(newlines) ==
            Text(Cardinality(newlines) + 1,
                 IF newlines = {} THEN failure.at ELSE failure.at - Max(newlines))
    IN  Located(Occurrences(SubSeq(s, 1, failure.at - 1), "\n"))

(***************************************************************************)
(* create_refiner_agent.agent_invoke                                       *)
(***************************************************************************)

\* a chat_history entry
Message(role, content) == [role |-> role, content |-> content]

\* the result of the fast path
SuccessCommand(warehouse_match) ==
    PyDict(<<
        <<"status", PyStr("SUCCESS")>>,
        <<"command", PyDict(<<
            <<"tool_name", PyStr("calculate_expenses")>>,
            <<"filter_type", PyStr("WAREHOUSE")>>,
            <<"filter_values", PyList(<<PyStr(warehouse_match)>>)>> >>)>>,
        <<"clarification_question", PyNone>> >>)

\* history_str: the turns as "role: content" lines
HistoryStr(chat_history) ==
    IF chat_history = <<>> THEN "No history yet."
    ELSE Join("\n", [i \in 1..Len(chat_history) |->
                        chat_history[i].role \o ": " \o chat_history[i].content])

\* the values REFINER_PROMPT_TEMPLATE.format() puts into the prompt (the
\* template names the regions itself and has no place for valid_regions)
Prompt(user_query, chat_history, valid_cities, valid_warehouses) ==
    [valid_cities |-> valid_cities,
     valid_warehouses_sample |-> SubSeq(valid_warehouses, 1, Min({15, Len(valid_warehouses)})),
     chat_history |-> HistoryStr(chat_history),
     user_query |-> user_query]

\* what a call of llm_client.invoke(prompt), or of the executor agent,
\* does: return a text, or raise
CallReturns(text) == [kind |-> "return", text |-> text]

CallRaises(text) == [kind |-> "raise", text |-> text]

BackendNotCalled == [kind |-> "none", text |-> ""]

\* `"status" not in parsed_json`: the outcome of the test ("in", "not in"),
\* or the TypeError it raises on a value that has no `in`
StatusTest(parsed_json) ==
    IF parsed_json.t = "dict"
    THEN IF "status" \in DOMAIN parsed_json.f THEN "in" ELSE "not in"
    ELSE IF parsed_json.t = "list"
    THEN IF \E i \in 1..Len(parsed_json.items) : parsed_json.items[i] = PyStr("status")
         THEN "in" ELSE "not in"
    ELSE IF parsed_json.t = "str"
    THEN IF Contains(parsed_json.s, "status") THEN "in" ELSE "not in"
    ELSE "argument of type '" \o parsed_json.t \o "' is not iterable"

\* a handler that drops the exception's text
InvocationFailureUnexplained(e) ==
    PyDict(<< <<"status", PyStr("ERROR")>>,
              <<"error_message", PyStr("LLM invocation failed")>> >>)

\* the handler of `except Exception`
InvocationFailure(e) ==
    PyDict(<< <<"status", PyStr("ERROR")>>,
              <<"error_message", PyStr("LLM invocation failed: " \o e)>> >>)

\* the default of fuzzy_match_city's threshold parameter, in hundredths
DefaultThreshold == 60

\* the threshold the parse fallback passes, in hundredths
FallbackThreshold == 70

\* the handler of `except json.JSONDecodeError`
ParseFailure(user_query, valid_cities, e) ==
    LET Fallback(fuzzy_matches) ==
            IF fuzzy_matches # <<>>
            THEN PyDict(<< <<"status", PyStr("CLARIFICATION_NEEDED")>>,
                           <<"command", PyNone>>,
                           <<"clarification_question",
                             PyStr("Did you mean one of these cities: "
                                   \o Join(", ", fuzzy_matches) \o "?")>> >>)
            ELSE PyDict(<< <<"status", PyStr("ERROR")>>,
                           <<"error_message",
                             PyStr("Failed to parse LLM response. JSON error: " \o e)>> >>)
    IN  Fallback(fuzzy_match_city(user_query, valid_cities, FallbackThreshold))

CommandJson(tool_name, filter_type, values) ==
    "{\"status\": \"SUCCESS\", \"command\": {\"tool_name\": \"" \o tool_name
      \o "\", \"filter_type\": \"" \o filter_type \o "\", \"filter_values\": [" \o values
      \o "]}, \"clarification_question\": null}"

\* texts the backend returns: commands with known and unknown values and
\* with filter types the loop does and does not validate, the other
\* statuses, objects off the schema, a fenced and commented object, prose
\* objects as test_json_cleaning writes them: a line comment, a block
\* comment, a trailing comma, code fences; and an object followed by a line
\* comment
DecoratedObjectTexts ==
    {"{\"status\": \"SUCCESS\", \"command\": {\"filter_values\": [\"KOLHAPUR-89\"]} // comment}",
     "{\"status\": \"SUCCESS\" /* this is a comment */ }",
     "{\"status\": \"SUCCESS\", \"values\": [\"A\", \"B\",]}",
     Fence \o "json\n{\"status\": \"SUCCESS\"}\n" \o Fence,
     "{\"status\": \"OUT_OF_SCOPE\"} // not about expenses"}

BackendTexts ==
    {CommandJson("calculate_expenses", "CITY", "\"JAIPUR\""),
     CommandJson("calculate_expenses", "CITY", "\"ATLANTIS\""),
     CommandJson("calculate_expenses", "city", "\"ATLANTIS\""),
     CommandJson("list_warehouses_by_location", "REGION", "\"NORTH\", \"MOON\""),
     CommandJson("get_warehouse_details", "WAREHOUSE_IDENTIFIER", "\"KOLKATA-75\""),
     "{\"status\": \"SUCCESS\", \"command\": null, \"clarification_question\": null}",
     "{\"status\": \"CLARIFICATION_NEEDED\", \"command\": null, "
       \o "\"clarification_question\": \"Which city?\"}",
     "{\"status\": \"OUT_OF_SCOPE\", \"command\": null, \"clarification_question\": null}",
     "{\"status\": \"MAYBE\"}",
     "{\"command\": null}",
     "[\"status\"]",
     "5",
     Fence \o "json\n{\"status\": \"OUT_OF_SCOPE\", // not about expenses\n \"command\": null,"
       \o " /* no\n command */ \"clarification_question\": null,\n}\n" \o Fence,
     "Sure! Did you mean Jaipur?",
     "{\"status\": \"CLARIFICATION_NEEDED\", \"command\": null, "
       \o "\"clarification_question\": \"North // or South?\"}",
     "{\"status\": \"CLARIFICATION_NEEDED\", \"command\": null, "
       \o "\"clarification_question\": \"Which of [JAIPUR, ]?\"}",
     "{\"status\": \"OUT_OF_SCOPE\", \"command\": null"}
      \cup DecoratedObjectTexts

\* clean_json_response and json.loads applied to a response
CleanedAndLoaded(response) ==
    LET Loaded(cleaned_response) ==
            [cleaned_response |-> cleaned_response, parsed |-> json_loads(cleaned_response)]
    IN  Loaded(clean_json_response(response))

\* the same for the texts above, evaluated once
LoadedBackendTexts == [text \in BackendTexts |-> CleanedAndLoaded(text)]

\* cleaning and loading a response, by the table where it has the response
LoadResponse(response) ==
    IF response \in DOMAIN LoadedBackendTexts
    THEN LoadedBackendTexts[response]
    ELSE CleanedAndLoaded(response)

\* the try block, given what the backend did
Refined(user_query, valid_cities, backend) ==
    IF backend.kind = "raise" THEN InvocationFailure(backend.text)
    ELSE LET Tested(parsed_json, test) ==
                 IF test = "in" THEN parsed_json
                 ELSE IF test = "not in"
                 THEN InvocationFailure("Missing 'status' field in LLM response")
                 ELSE InvocationFailure(test)
             Loaded(cleaned_response, parsed) ==
                 IF ~parsed.ok
                 THEN ParseFailure(user_query, valid_cities,
                                   JSONDecodeErrorText(cleaned_response, parsed))
                 ELSE Tested(parsed.v, StatusTest(parsed.v))
             Answered(loaded) == Loaded(loaded.cleaned_response, loaded.parsed)
         IN  Answered(LoadResponse(backend.text))

\* agent_invoke(user_query, chat_history, valid_regions, valid_cities,
\* valid_warehouses), the backend behaving as `backend` if it is called: the
\* value returned, the backend's behaviour if it was called, and the prompt
\* it was given
agent_invoke(user_query, chat_history, valid_regions, valid_cities, valid_warehouses, backend) ==
    LET FastPath(warehouse_match) ==
            IF warehouse_match # ""
            THEN [value |-> SuccessCommand(warehouse_match),
                  backend |-> BackendNotCalled, prompt |-> [user_query |-> ""]]
            ELSE [value |-> Refined(user_query, valid_cities, backend),
                  backend |-> backend,
                  prompt |-> Prompt(user_query, chat_history, valid_cities,
                                    valid_warehouses)]
    IN  FastPath(extract_warehouse_code_from_query(user_query, valid_warehouses))

(***************************************************************************)
(* The refiner called with every query over every master set, the backend  *)
(* answering or failing in every way listed                                *)
(***************************************************************************)

\* the backend call returns one of the texts, or fails
BackendBehaviours ==
    {CallReturns(text) : text \in BackendTexts}
        \cup {CallRaises(text) : text \in {"Connection refused", "Read timed out"}}

\* user queries: codes written with a space, a hyphen, a space before the
\* hyphen, inside a sentence; city names, exact and misspelt; others
QueryPool ==
    {"CHENNAI 16", "total for chennai-16", "jaipur -58", "expenses in delhi",
     "noida 62", "jaipur", "jaypore", "chenai", "greater noid", "north region", "-5"}

\* conversations so far
HistoryPool ==
    {<<>>,
     <<Message("user", "jaipur"),
       Message("assistant", "Did you mean one of these cities: JAIPUR?")>>}

InitRefiner ==
    /\ store \in {s \in Stores : s.warehouse_db = "up" /\ s.invoices_db = "up"}
    /\ data_validator = LoadedValidator(store.master)
    /\ init_call = NoCall
    /\ refine = Idle
    /\ agg = Idle
    /\ session = Idle

\* a call of the refiner that the fast path answers
RefineByCode ==
    /\ refine.phase = "idle"
    /\ \E q \in QueryPool, h \in HistoryPool :
          /\ extract_warehouse_code_from_query(q, get_valid_warehouses(data_validator)) # ""
          /\ refine' = [phase |-> "done", user_query |-> q, chat_history |-> h,
                        result |-> agent_invoke(q, h, get_valid_regions(data_validator),
                                                get_valid_cities(data_validator),
                                                get_valid_warehouses(data_validator),
                                                BackendNotCalled)]
    /\ UNCHANGED <<store, data_validator, init_call, agg, session>>

\* a call of the refiner that goes to the backend
RefineByBackend ==
    /\ refine.phase = "idle"
    /\ \E q \in QueryPool, h \in HistoryPool, b \in BackendBehaviours :
          /\ extract_warehouse_code_from_query(q, get_valid_warehouses(data_validator)) = ""
          /\ refine' = [phase |-> "done", user_query |-> q, chat_history |-> h,
                        result |-> agent_invoke(q, h, get_valid_regions(data_validator),
                                                get_valid_cities(data_validator),
                                                get_valid_warehouses(data_validator), b)]
    /\ UNCHANGED <<store, data_validator, init_call, agg, session>>

\* warehouse codes as the reference index holds them (upper case, no
\* padding): a code without a hyphen, codes of one-word and multi-word
\* cities, a code that begins with another, a city part that ends in a
\* space, an empty city part
ResolverCodePool ==
    {"DELHI", "DELHI-5", "DELHI-52", "NEW DELHI-5", "GREATER NOIDA-62", "JAIPUR -58", "-5"}

\* a call of extract_warehouse_code_from_query on its own: queries that
\* write a code with a space in upper, lower and mixed case, with its
\* hyphen, inside a sentence, and a number alone
ResolveCode ==
    /\ refine.phase = "idle"
    /\ \E q \in {"DELHI 5", "delhi 5", "New Delhi 5", "greater noida 62",
                  "JAIPUR  58", " 5", "delhi-5", "Delhi-52", "total for delhi 5"},
          codes \in SUBSET ResolverCodePool :
          refine' = [phase |-> "resolved", query |-> q,
                     valid_warehouses |-> Sorted(codes),
                     code |-> extract_warehouse_code_from_query(q, Sorted(codes))]
    /\ UNCHANGED <<store, data_validator, init_call, agg, session>>

\* the caller has taken the result
RefinerReturn ==
    /\ refine.phase \in {"done", "resolved"}
    /\ refine' = Idle
    /\ UNCHANGED <<store, data_validator, init_call, agg, session>>

NextRefiner == RefineByCode \/ RefineByBackend \/ ResolveCode \/ RefinerReturn

SpecRefiner == InitRefiner /\ [][NextRefiner]_vars

(***************************************************************************)
(* The fuzzy matches, over indexes loaded from master data whose cities    *)
(* and codes resemble one another                                          *)
(***************************************************************************)

InitFuzzy ==
    /\ store \in [warehouse_db : {"up"}, invoices_db : {"up"},
                   master : SUBSET {<<"1", "JAIPUR-1">>, <<"2", "JAIPURA-12">>,
                                    <<"3", "JAIPURAM-3">>, <<"4", "RAIPUR-4">>,
                                    <<"5", "UDAIPUR-5">>, <<"6", "KANPUR-6">>,
                                    <<"7", "JODHPUR-7">>}]
    /\ data_validator = LoadedValidator(store.master)
    /\ init_call = NoCall
    /\ refine = Idle
    /\ agg = Idle
    /\ session = Idle

\* a call of one of the three fuzzy matches with an input in any case,
\* padded or not, and a threshold in hundredths: the normalised input it
\* compares with, the set it searches, its cap, and the list it returns
FuzzyMatch ==
    /\ agg.phase = "idle"
    /\ \E user_input \in {" jaipur", "raipur", "Raipur-14"}, threshold \in {60, 70, 80} :
          \/ agg' = [phase |-> "done", op |-> "DataValidator.fuzzy_match_city",
                     word |-> Upper(Strip(user_input)), threshold |-> threshold,
                     among |-> data_validator.valid_cities, cap |-> 5,
                     value |-> validator_fuzzy_match_city(data_validator, user_input,
                                                          threshold)]
          \/ agg' = [phase |-> "done", op |-> "DataValidator.fuzzy_match_warehouse",
                     word |-> Upper(Strip(user_input)), threshold |-> threshold,
                     among |-> data_validator.valid_warehouses, cap |-> 5,
                     value |-> validator_fuzzy_match_warehouse(data_validator, user_input,
                                                               threshold)]
          \/ agg' = [phase |-> "done", op |-> "fuzzy_match_city",
                     word |-> Upper(user_input), threshold |-> threshold,
                     among |-> data_validator.valid_cities, cap |-> 3,
                     value |-> fuzzy_match_city(user_input,
                                                get_valid_cities(data_validator),
                                                threshold)]
    /\ UNCHANGED <<store, data_validator, init_call, refine, session>>

SpecFuzzy == InitFuzzy /\ [][FuzzyMatch \/ AggregatorReturn]_vars

(***************************************************************************)
(* Claims about the refiner                                                *)
(***************************************************************************)

\* the call of the refiner that has just returned
Refined_ == refine.phase = "done"

\* the field of a result, None when the value has none
Field(value, key) ==
    IF value.t = "dict" /\ key \in DOMAIN value.f THEN value.f[key] ELSE PyNone

\* the value is a dict whose status is the given one
HasStatus(value, status) ==
    value.t = "dict" /\ Field(value, "status") = PyStr(status)

\* C1: whenever the Filter Resolver finds a warehouse code W in the query,
\* agent_invoke returns status SUCCESS with the command {calculate_expenses,
\* WAREHOUSE, [W]} and a null clarification_question, and the backend is not
\* invoked during the call, whatever the history; the query "CHENNAI 16"
\* over a warehouse set with CHENNAI-16 is such a query.
C1_CodeInQuerySkipsBackend ==
    Refined_ =>
        LET W == extract_warehouse_code_from_query(refine.user_query,
                                                   get_valid_warehouses(data_validator))
            found == \/ W # ""
                     \/ /\ refine.user_query = "CHENNAI 16"
                        /\ "CHENNAI-16" \in data_validator.valid_warehouses
            value == refine.result.value
        IN  found =>
              /\ W \in data_validator.valid_warehouses
              /\ value.t = "dict"
              /\ DOMAIN value.f = {"status", "command", "clarification_question"}
              /\ value.f["status"] = PyStr("SUCCESS")
              /\ value.f["command"] =
                    PyDict(<< <<"tool_name", PyStr("calculate_expenses")>>,
                              <<"filter_type", PyStr("WAREHOUSE")>>,
                              <<"filter_values", PyList(<<PyStr(W)>>)>> >>)
              /\ value.f["clarification_question"] = PyNone
              /\ refine.result.backend.kind = "none"
              /\ refine.user_query = "CHENNAI 16" => W = "CHENNAI-16"

\* "CHENNAI 16" has been resolved to CHENNAI-16 with a conversation behind
\* it and no backend call
C1_Witness ==
    /\ Refined_
    /\ refine.user_query = "CHENNAI 16"
    /\ refine.chat_history # <<>>
    /\ HasStatus(refine.result.value, "SUCCESS")
    /\ Field(Field(refine.result.value, "command"), "filter_values")
          = PyList(<<PyStr("CHENNAI-16")>>)
    /\ refine.result.backend.kind = "none"

\* the backend was called and gave no JSON value that carries "status": it
\* raised, or returned text that does not parse, or a value without it
BackendGaveNoStatus ==
    /\ Refined_
    /\ refine.result.backend.kind # "none"
    /\ \/ refine.result.backend.kind = "raise"
       \/ LET parsed == LoadResponse(refine.result.backend.text).parsed
          IN  ~parsed.ok \/ StatusTest(parsed.v) # "in"

WellFormedResult(value) ==
    /\ value.t = "dict"
    /\ \E s \in {"SUCCESS", "CLARIFICATION_NEEDED", "OUT_OF_SCOPE", "ERROR"} :
          Field(value, "status") = PyStr(s)
    /\ Field(value, "command") # PyNone <=> HasStatus(value, "SUCCESS")
    /\ Field(value, "command") # PyNone =>
          /\ Field(value, "command").t = "dict"
          /\ {"tool_name", "filter_type", "filter_values"}
                \subseteq DOMAIN Field(value, "command").f
    /\ Field(value, "clarification_question") # PyNone =>
          HasStatus(value, "CLARIFICATION_NEEDED")

\* C4: every value agent_invoke returns is an object whose status is one of
\* SUCCESS, CLARIFICATION_NEEDED, OUT_OF_SCOPE, ERROR, whose command is
\* non-null (with tool_name, filter_type, filter_values) exactly when the
\* status is SUCCESS, and whose clarification_question is non-null only
\* when the status is CLARIFICATION_NEEDED.
C4_ResultIsWellFormed ==
    Refined_ => WellFormedResult(refine.result.value)

\* the part of C4 that is about the results agent_invoke builds itself
OwnResultsAreWellFormed ==
    (Refined_ /\ (refine.result.backend.kind = "none" \/ BackendGaveNoStatus))
        => WellFormedResult(refine.result.value)

\* the backend returned text that does not parse when cleaned
ParseFailed ==
    /\ Refined_
    /\ refine.result.backend.kind = "return"
    /\ ~LoadResponse(refine.result.backend.text).parsed.ok

\* the valid cities whose similarity to the upper-cased query is 0.7 or more
CitiesCloseToQuery ==
    {c \in data_validator.valid_cities :
        LET r == Ratio(c, Upper(refine.user_query)) IN 10 * r[1] >= 7 * r[2]}

\* C5: when the backend's cleaned output does not parse as JSON,
\* agent_invoke matches the query against the valid cities: if a city
\* clears the threshold of 0.7 it returns CLARIFICATION_NEEDED with a null
\* command and a question naming such cities and no others, otherwise ERROR
\* with the parse failure's message; never SUCCESS.
C5_ParseFailureFallsBackToCities ==
    ParseFailed =>
        LET value == refine.result.value
            loaded == LoadResponse(refine.result.backend.text)
        IN  IF CitiesCloseToQuery # {}
            THEN /\ HasStatus(value, "CLARIFICATION_NEEDED")
                 /\ Field(value, "command") = PyNone
                 /\ Field(value, "clarification_question").t = "str"
                 /\ \E c \in CitiesCloseToQuery :
                       Contains(Field(value, "clarification_question").s, c)
                 /\ \A c \in data_validator.valid_cities \ CitiesCloseToQuery :
                       ~Contains(Field(value, "clarification_question").s, c)
            ELSE /\ HasStatus(value, "ERROR")
                 /\ Field(value, "error_message").t = "str"
                 /\ Contains(Field(value, "error_message").s,
                             JSONDecodeErrorText(loaded.cleaned_response, loaded.parsed))

\* the backend answered "chenai" in prose and the caller was asked whether
\* CHENNAI was meant
C5_Witness ==
    /\ ParseFailed
    /\ refine.user_query = "chenai"
    /\ refine.result.backend.text = "Sure! Did you mean Jaipur?"
    /\ refine.result.value =
          PyDict(<< <<"status", PyStr("CLARIFICATION_NEEDED")>>,
                    <<"command", PyNone>>,
                    <<"clarification_question",
                      PyStr("Did you mean one of these cities: CHENNAI?")>> >>)

\* the other side of C5: prose for a query close to no city has given ERROR
ParseFailureReported ==
    /\ ParseFailed
    /\ refine.user_query = "jaypore"
    /\ "JAIPUR" \in data_validator.valid_cities
    /\ refine.result.value =
          PyDict(<< <<"status", PyStr("ERROR")>>,
                    <<"error_message",
                      PyStr("Failed to parse LLM response. JSON error: "
                            \o "Expecting value: line 1 column 1 (char 0)")>> >>)

(***************************************************************************)
(* main.py: the interactive loop                                           *)
(***************************************************************************)

\* what the executor agent does with a command: return a text, or raise
\* run_executor_agent(command, agent): the result string.  TLA+ strings are
\* ASCII: the signs main.py prints are written (x), (!), (i) and (~).
run_executor_agent(command, agent) ==
    IF agent.kind = "raise"
    THEN "\n(x) CRITICAL ERROR during agent execution: " \o agent.text
    ELSE IF agent.text # "" THEN agent.text
    ELSE "\n(x) AGENT RESPONSE: Received an empty result."

\* the members of filter_values as the comprehensions iterate them; a str
\* yields its characters
Iterated(filter_values) ==
    IF filter_values.t = "list" THEN filter_values.items
    ELSE [i \in 1..Len(filter_values.s) |-> PyStr(Ch(filter_values.s, i))]

\* invalid_values: the values the validator of the filter type rejects
InvalidValues(dv, filter_type, values) ==
    IF filter_type = PyStr("REGION")
    THEN SelectSeq(values, LAMBDA v : ~validate_region(dv, v.s))
    ELSE IF filter_type = PyStr("CITY")
    THEN SelectSeq(values, LAMBDA v : ~validate_city(dv, v.s))
    ELSE IF filter_type = PyStr("WAREHOUSE")
    THEN SelectSeq(values, LAMBDA v : ~validate_warehouse(dv, v.s))
    ELSE <<>>

\* the suggestion lines printed for the invalid values
SuggestionLines(dv, filter_type, invalid_values) ==
    LET suggestions(inv_val) ==
            IF filter_type = PyStr("CITY") THEN validator_fuzzy_match_city(dv, inv_val.s, 70)
            ELSE IF filter_type = PyStr("WAREHOUSE")
            THEN validator_fuzzy_match_warehouse(dv, inv_val.s, 80)
            ELSE <<>>
        Line(s) ==
            "   (i) Did you mean: "
              \o Join(", ", SubSeq(s, 1, Min({3, Len(s)}))) \o "?"
        Lines(suggested) == [i \in 1..Len(suggested) |-> Line(suggestions(suggested[i]))]
    IN  Lines(SelectSeq(invalid_values, LAMBDA v : suggestions(v) # <<>>))

\* str() of a value put into a message
StrOf(v) ==
    IF v.t = "str" THEN v.s ELSE IF v.t = "NoneType" THEN "None" ELSE "<" \o v.t \o ">"

\* the outcome of one pass of the loop: how it ended, what it printed, the
\* messages it appended and the command it passed to the executor
Pass(outcome, printed, appended, executed) ==
    [outcome |-> outcome, printed |-> printed, appended |-> appended,
     executed |-> executed]

Exchange(user_query, content) ==
    <<Message("user", user_query), Message("assistant", content)>>

\* the handler of `except Exception` in the loop
Unexpected(e) ==
    Pass("unexpected error",
         <<"\n(x) UNEXPECTED ERROR: " \o e,
           "(i) The system is still running. Try another query or type 'quit' to exit.">>,
         <<>>, <<>>)

\* Step 2 of the loop body: acting on the refinement result
ActOn(refinement_result, user_query, dv, agent) ==
    IF refinement_result.t # "dict"
    THEN Unexpected("'" \o refinement_result.t \o "' object has no attribute 'get'")
    ELSE
    LET Executed(command, final_result) ==
            Pass("executed", <<final_result>>, Exchange(user_query, final_result),
                 <<command>>)
        Rejected(filter_type, invalid_values, error_msg) ==
            Pass("invalid values",
                 <<error_msg>> \o SuggestionLines(dv, filter_type, invalid_values),
                 Exchange(user_query, error_msg), <<>>)
        Validated(command, filter_type, invalid_values) ==
            IF invalid_values # <<>>
            THEN Rejected(filter_type, invalid_values,
                          "(!)  Invalid " \o StrOf(filter_type) \o " values: "
                            \o PyListStr([i \in 1..Len(invalid_values) |->
                                             invalid_values[i].s]))
            ELSE Executed(command, run_executor_agent(command, agent))
        Values(command, filter_type, validated, values) ==
            IF validated /\ \E i \in 1..Len(values) : values[i].t # "str"
            THEN Unexpected("'" \o values[Min({i \in 1..Len(values) :
                                                 values[i].t # "str"})].t
                            \o "' object has no attribute 'upper'")
            ELSE Validated(command, filter_type, InvalidValues(dv, filter_type, values))
        Filter(command, filter_type, filter_values, validated) ==
            IF validated /\ filter_values.t \notin {"list", "str"}
            THEN Unexpected("'" \o filter_values.t \o "' object is not iterable")
            ELSE Values(command, filter_type, validated, Iterated(filter_values))
        Typed(command, filter_type) ==
            Filter(command, filter_type,
                   IF "filter_values" \in DOMAIN command.f
                   THEN command.f["filter_values"] ELSE PyList(<<>>),
                   filter_type \in {PyStr("REGION"), PyStr("CITY"), PyStr("WAREHOUSE")})
        Success(command) ==
            IF command.t # "dict"
            THEN Unexpected("'" \o command.t \o "' object has no attribute 'get'")
            ELSE Typed(command, DictGet(command, "filter_type"))
        Clarification(clarification) ==
            Pass("clarification", <<"Assistant: " \o clarification>>,
                 Exchange(user_query, clarification), <<>>)
        OutOfScope(response) ==
            Pass("out of scope", <<response>>, Exchange(user_query, response), <<>>)
        Status(status) ==
            IF status = PyStr("SUCCESS")
            THEN Success(DictGet(refinement_result, "command"))
            ELSE IF status = PyStr("CLARIFICATION_NEEDED")
            THEN Clarification(StrOf(DictGet(refinement_result, "clarification_question")))
            ELSE IF status = PyStr("OUT_OF_SCOPE")
            THEN OutOfScope("\n(!)  INFO: This query is out of scope. "
                            \o "I can only answer questions about expenses.")
            ELSE IF status = PyStr("ERROR")
            THEN Pass("error",
                      <<"\n(x) ERROR: "
                         \o (IF "error_message" \in DOMAIN refinement_result.f
                             THEN StrOf(refinement_result.f["error_message"])
                             ELSE "An unknown error occurred."),
                        "\n(i) Try:", "   * Use exact city/region names",
                        "   * For warehouses, use format: CITY-NUMBER",
                        "   * Type 'help' for examples">>,
                      <<>>, <<>>)
            ELSE Pass("no branch", <<>>, <<>>, <<>>)
    IN  Status(DictGet(refinement_result, "status"))

\* the most queries one session of the model refines
MaxTurns == 2

\* lines the user types: the words that end the session, lines the loop
\* answers itself, and queries
\* what the backend does in a session: commands with valid, invalid and mixed
\* values, a value close to a known one, a filter type the loop does not validate, a null command, the
\* other statuses, a status off the schema, prose, a failure
SessionBackend ==
    {CallReturns(CommandJson("calculate_expenses", "CITY", "\"JAIPUR\"")),
     CallReturns(CommandJson("calculate_expenses", "CITY", "\"ATLANTIS\"")),
     CallReturns(CommandJson("calculate_expenses", "city", "\"ATLANTIS\"")),
     CallReturns(CommandJson("calculate_expenses", "WAREHOUSE", "\"JAIPUR-5\"")),
     CallReturns(CommandJson("list_warehouses_by_location", "REGION",
                                "\"NORTH\", \"MOON\"")),
     CallReturns("{\"status\": \"SUCCESS\", \"command\": null, "
                    \o "\"clarification_question\": null}"),
     CallReturns("{\"status\": \"CLARIFICATION_NEEDED\", \"command\": null, "
                    \o "\"clarification_question\": \"Which city?\"}"),
     CallReturns("{\"status\": \"OUT_OF_SCOPE\", \"command\": null, "
                    \o "\"clarification_question\": null}"),
     CallReturns("{\"status\": \"MAYBE\"}"),
     CallReturns("Sure! Did you mean Jaipur?"),
     CallRaises("Connection refused")}

\* what the executor agent does in a session
ExecutorBehaviours ==
    {CallReturns("Total expenses: 100"), CallReturns(""),
     CallRaises("tool failed")}

Init ==
    /\ store \in {s \in Stores : /\ s.warehouse_db = "up"
                                /\ s.invoices_db = "up"
                                /\ s.master \in
                                     {MasterPool,
                                      {<<"1", "JAIPUR-58">>, <<"3", "CHENNAI-16">>}}}
    /\ data_validator = LoadedValidator(store.master)
    /\ init_call = NoCall
    /\ refine = Idle
    /\ agg = Idle
    /\ session = [phase |-> "reading", chat_history |-> <<>>, executed |-> <<>>,
                  turns |-> 0, line |-> "", last |-> [outcome |-> "none"]]

\* input() returns a word that ends the session
ReadExit ==
    /\ session.phase = "reading"
    /\ \E line \in {"quit", " Bye "} :
          /\ Lower(Strip(line)) \in {"quit", "exit", "q", "bye"}
          /\ session' = [session EXCEPT !.phase = "exited", !.line = line,
                                        !.last = Pass("goodbye", <<"\n(~) Goodbye!">>,
                                                      <<>>, <<>>)]
    /\ UNCHANGED <<store, data_validator, init_call, refine, agg>>

\* input() raises EOFError
ReadEndOfInput ==
    /\ session.phase = "reading"
    /\ session' = [session EXCEPT !.phase = "exited", !.line = "",
                                  !.last = Pass("end of input", <<"\n\n(~) Goodbye!">>,
                                                <<>>, <<>>)]
    /\ UNCHANGED <<store, data_validator, init_call, refine, agg>>

\* input() raises KeyboardInterrupt
ReadInterrupt ==
    /\ session.phase = "reading"
    /\ session' = [session EXCEPT !.line = "",
                                  !.last = Pass("interrupted",
                                                <<"\n\n(!)  Interrupted. Type 'quit' to exit.">>,
                                                <<>>, <<>>)]
    /\ UNCHANGED <<store, data_validator, init_call, refine, agg>>

\* input() returns an empty line, help or report
ReadLocal ==
    /\ session.phase = "reading"
    /\ \E line \in {"", "help", "report"} :
          /\ Lower(Strip(line)) \in {"", "help", "report"}
          /\ session' = [session EXCEPT !.line = line,
                                        !.last = Pass("local", <<>>, <<>>, <<>>)]
    /\ UNCHANGED <<store, data_validator, init_call, refine, agg>>

\* input() returns a query: it is refined, validated and executed
ReadQuery ==
    /\ session.phase = "reading"
    /\ session.turns < MaxTurns
    /\ \E line \in {"CHENNAI 16", "jaipur", " north region"}, backend \in SessionBackend, agent \in ExecutorBehaviours :
          LET Acted(pass) ==
                  session' = [session EXCEPT
                                !.chat_history = @ \o pass.appended,
                                !.executed = @ \o pass.executed,
                                !.turns = @ + 1,
                                !.line = line,
                                !.last = pass]
              Refine(user_query) ==
                  /\ Lower(user_query) \notin
                         {"quit", "exit", "q", "bye", "", "help", "report"}
                  /\ Acted(ActOn(agent_invoke(user_query, session.chat_history,
                                              get_valid_regions(data_validator),
                                              get_valid_cities(data_validator),
                                              get_valid_warehouses(data_validator),
                                              backend).value,
                                 user_query, data_validator, agent))
          IN  Refine(Strip(line))
    /\ UNCHANGED <<store, data_validator, init_call, refine, agg>>

Next == ReadExit \/ ReadEndOfInput \/ ReadInterrupt \/ ReadLocal \/ ReadQuery

Spec == Init /\ [][Next]_vars

(***************************************************************************)
(* Claims about the interactive loop                                       *)
(***************************************************************************)

\* the ReferenceSet of a filter type, as the tools read the type (upper
\* case, trimmed)
ReferenceSet(dv, filter_type) ==
    IF Upper(Strip(filter_type)) = "REGION" THEN dv.valid_regions
    ELSE IF Upper(Strip(filter_type)) = "CITY" THEN dv.valid_cities
    ELSE dv.valid_warehouses

\* the command names a region, city or warehouse filter and lists its values
GeographicCommand(command) ==
    /\ Field(command, "filter_type").t = "str"
    /\ Upper(Strip(Field(command, "filter_type").s)) \in {"REGION", "CITY", "WAREHOUSE"}
    /\ Field(command, "filter_values").t = "list"

\* the values of the command that are no members of its ReferenceSet
UnknownValues(dv, command) ==
    {v \in Range(Field(command, "filter_values").items) :
        \/ v.t # "str"
        \/ Upper(Strip(v.s)) \notin ReferenceSet(dv, Field(command, "filter_type").s)}

\* C2: in the interactive loop no command is ever passed to the executor
\* while one of its filter_values is not a member of the ReferenceSet for its
\* filter_type; the turn that carries such a command executes nothing.
C2_NoInvalidValueExecuted ==
    \A i \in 1..Len(session.executed) :
        GeographicCommand(session.executed[i])
            => UnknownValues(data_validator, session.executed[i]) = {}

\* the same for the commands whose filter_type is written exactly REGION,
\* CITY or WAREHOUSE: these the loop does check
ExactTypeNeverExecutedInvalid ==
    \A i \in 1..Len(session.executed) :
        Field(session.executed[i], "filter_type")
                \in {PyStr("REGION"), PyStr("CITY"), PyStr("WAREHOUSE")}
            => /\ GeographicCommand(session.executed[i])
               /\ UnknownValues(data_validator, session.executed[i]) = {}

\* a turn whose command held an unknown value under an exactly written
\* type: it was reported and nothing was executed
InvalidTurnReported ==
    /\ session.last.outcome = "invalid values"
    /\ session.last.executed = <<>>
    /\ session.phase = "reading"

\* the city of a code formed from a city and a number has been extracted
CityExtracted ==
    /\ agg.phase = "done"
    /\ agg.op = "extract_city_from_warehouse_code"
    /\ ~Contains(agg.city, "-")

\* C19: for every city string with no hyphen, of one word or several, and
\* every number n, extract_city_from_warehouse_code(city + "-" + n) is the
\* city in upper case.
C19_ExtractionInvertsFormation ==
    CityExtracted => agg.value = Upper(agg.city)

\* C19, as the code has it: the extraction splits on the last hyphen and
\* strips the city, so the result is the city stripped of the whitespace
\* around it, in upper case; it is the city in upper case when the city has
\* no whitespace at either end.
C19_ExtractionInvertsFormationUpToPadding ==
    CityExtracted =>
        /\ agg.value = Upper(Strip(agg.city))
        /\ agg.city = Strip(agg.city) => agg.value = Upper(agg.city)

\* a city of several words in mixed case has been extracted
C19_Witness ==
    /\ CityExtracted
    /\ agg.city = "Greater Noida"
    /\ agg.n = "62"
    /\ agg.value = "GREATER NOIDA"

\* the step is a call of initialize() on an index that a call has loaded
InitializeAgain ==
    /\ data_validator.is_initialized
    /\ store' = store

\* C22: after one successful initialize(), every later call is a no-op: it
\* sends no query to the store and leaves the regions, the cities, the
\* warehouses and the map from warehouse to city as they were, also when the
\* master data has changed since.
C22_InitializeIsIdempotent ==
    [][InitializeAgain =>
         /\ init_call'.sent = <<>>
         /\ init_call'.outcome = "returned"
         /\ data_validator' = data_validator]_vars

\* a loaded index whose master data has changed since: the codes in the
\* store are no longer the codes of the index, and no query is under way
C22_Witness ==
    /\ data_validator.is_initialized
    /\ init_call = [outcome |-> "returned", error |-> "", sent |-> <<>>]
    /\ store.warehouse_db = "up"
    /\ data_validator.valid_warehouses
          # ParsedWarehouseCodes(sql_executor(WarehouseCodeQuery, "WAREHOUSE", <<>>, store))

\* a fuzzy match has returned
FuzzyMatched ==
    /\ agg.phase = "done"
    /\ agg.op \in {"DataValidator.fuzzy_match_city", "DataValidator.fuzzy_match_warehouse",
                   "fuzzy_match_city"}

\* the similarity a/b is at least c/d
AtLeast(r, q) == r[1] * q[2] >= q[1] * r[2]

\* C26: the fuzzy matches never return a candidate whose similarity to the
\* normalised input is below the threshold passed in, never return more
\* than their cap (5 in the DataValidator, 3 in the refiner's fallback),
\* return members of the set they search only, and order the candidates by
\* descending similarity.
C26_FuzzyMatchesAreBounded ==
    FuzzyMatched =>
        /\ \A i \in 1..Len(agg.value) :
               /\ agg.value[i] \in agg.among
               /\ AtLeast(Ratio(agg.value[i], agg.word), <<agg.threshold, 100>>)
        /\ Len(agg.value) <= agg.cap
        /\ \A i \in 1..(Len(agg.value) - 1) :
               AtLeast(Ratio(agg.value[i], agg.word), Ratio(agg.value[i + 1], agg.word))

\* the index's city match has cut six candidates above the threshold down to
\* its five best, best first, and the refiner's match cuts them to three
C26_Witness ==
    /\ FuzzyMatched
    /\ agg.threshold = 60
    /\ agg.word = "RAIPUR"
    /\ Cardinality({x \in agg.among : AtLeast(Ratio(x, agg.word), <<60, 100>>)}) = 6
    /\ \/ /\ agg.op = "DataValidator.fuzzy_match_city"
          /\ agg.value = <<"RAIPUR", "JAIPUR", "UDAIPUR", "JAIPURA", "JAIPURAM">>
       \/ /\ agg.op = "fuzzy_match_city"
          /\ agg.value = <<"RAIPUR", "JAIPUR", "UDAIPUR">>

\* the backend's cleaned answer has parsed, to a value without a status field
ParsedWithoutStatus ==
    /\ Refined_
    /\ refine.result.backend.kind = "return"
    /\ LoadResponse(refine.result.backend.text).parsed.ok
    /\ Field(LoadResponse(refine.result.backend.text).parsed.v, "status") = PyNone
    /\ ~(LoadResponse(refine.result.backend.text).parsed.v.t = "dict"
          /\ "status" \in DOMAIN LoadResponse(refine.result.backend.text).parsed.v.f)

\* C25: when the backend's cleaned output parses as JSON but has no status
\* field, the refiner treats it as a failure: the result has status ERROR and
\* the parsed value is not handed to the caller.
C25_MissingStatusIsError ==
    ParsedWithoutStatus =>
        /\ HasStatus(refine.result.value, "ERROR")
        /\ refine.result.value # LoadResponse(refine.result.backend.text).parsed.v

\* the same for the answers that parse to an object: a JSON object without
\* the key is answered with the ERROR result that names the missing field
ObjectWithoutStatusIsError ==
    (ParsedWithoutStatus
       /\ LoadResponse(refine.result.backend.text).parsed.v.t = "dict")
    => refine.result.value =
          PyDict(<< <<"status", PyStr("ERROR")>>,
                    <<"error_message",
                      PyStr("LLM invocation failed: Missing 'status' field in LLM response")>> >>)

\* a JSON object without the key has been answered
ObjectWithoutStatusAnswered ==
    /\ ParsedWithoutStatus
    /\ refine.result.backend.text = "{\"command\": null}"

\* the aggregator has been called, with a string, for a filter type that is
\* none of REGION, CITY and WAREHOUSE once in upper case and trimmed
AggregatedUnknownType ==
    /\ agg.phase = "done"
    /\ agg.op = "calculate_geographical_expenses"
    /\ agg.arg.kind = "str"
    /\ Upper(Strip(agg.filter_type)) \notin {"REGION", "CITY", "WAREHOUSE"}

\* C24: the aggregator rejects an unknown filter type at once: it returns an
\* ERROR result and sends no query to the master store or the invoice store.
C24_UnknownTypeRejectedAtOnce ==
    AggregatedUnknownType =>
        /\ ~agg.result.raised
        /\ StartsWith(agg.result.value, "ERROR")
        /\ agg.result.sent = <<>>
        /\ agg.result.matched = <<>>

\* an unknown filter type has been rejected for a value that is the code of
\* a warehouse of the master data, both databases up
C24_Witness ==
    /\ AggregatedUnknownType
    /\ agg.filter_type = "WAREHOUSE_IDENTIFIER"
    /\ agg.arg.s = "JAIPUR-58"
    /\ <<"1", "JAIPUR-58">> \in store.master
    /\ store.warehouse_db = "up"
    /\ store.invoices_db = "up"
    /\ agg.result.value
          = "ERROR: Invalid filter_type. Must be 'REGION', 'CITY', or 'WAREHOUSE'."

\* C23: once initialize() has completed, no operation of the reference index
\* (the validations, the fuzzy matches, the getters, get_city_for_warehouse,
\* get_warehouses_in_city, get_report) and no call of the listing or details
\* tool changes the regions, the cities, the warehouses or the map from
\* warehouse to city; the getters hand out new lists, so a change to a
\* returned list is not a change to the index.
C23_IndexIsImmutable ==
    [][data_validator.is_initialized =>
         /\ data_validator'.valid_regions = data_validator.valid_regions
         /\ data_validator'.valid_cities = data_validator.valid_cities
         /\ data_validator'.valid_warehouses = data_validator.valid_warehouses
         /\ data_validator'.warehouse_to_city = data_validator.warehouse_to_city]_vars

\* the caller has appended to the list get_valid_cities handed out, and the
\* index does not have the value
C23_Witness ==
    /\ data_validator.is_initialized
    /\ agg.phase = "done"
    /\ agg.op = "get_valid_cities"
    /\ Len(agg.value) >= 2
    /\ "ATLANTIS" \in Range(agg.value)
    /\ "ATLANTIS" \notin data_validator.valid_cities

\* the backend has answered the call with an object in one of the test's
\* shapes
DecoratedAnswer ==
    /\ Refined_
    /\ refine.result.backend.kind = "return"
    /\ refine.result.backend.text \in DecoratedObjectTexts

\* the cleaned text of the answer parses
CleanedAnswerParses == LoadResponse(refine.result.backend.text).parsed.ok

\* a line comment of the text is followed, on its line, by a closing brace
LineCommentHidesBrace(text) ==
    \E i \in Occurrences(text, "//") :
        \E j \in (i + 2)..Len(text) :
            /\ Ch(text, j) = "}"
            /\ \A x \in i..j : Ch(text, x) # "\n"

\* C20: for a JSON object text wrapped in code fences, or given a trailing
\* comma before a closing brace or bracket, a block comment, or a line comment
\* on the line of the object as the test writes it, clean_json_response
\* returns text that json.loads parses.
C20_CleanedTextParses ==
    DecoratedAnswer => CleanedAnswerParses

\* the cleaned text parses unless a line comment takes the object's closing
\* brace with it, and then it does not
CleanedTextParsesUnlessBraceHidden ==
    DecoratedAnswer =>
        (CleanedAnswerParses <=> ~LineCommentHidesBrace(refine.result.backend.text))

\* json.loads applied to the backend's texts as they are
LoadedRawTexts == [text \in BackendTexts |-> json_loads(text)]

\* the backend has answered the call with text that is valid JSON already
ValidAnswer ==
    /\ Refined_
    /\ refine.result.backend.kind = "return"
    /\ LoadedRawTexts[refine.result.backend.text].ok

\* cleaning has left the answer as it was, up to the whitespace around it
CleaningIsNoOp ==
    /\ LoadResponse(refine.result.backend.text).cleaned_response
          = Strip(refine.result.backend.text)
    /\ LoadResponse(refine.result.backend.text).parsed
          = LoadedRawTexts[refine.result.backend.text]

\* C21: for every text that is valid JSON already, also when a string value
\* of it holds //, a comment opener, backquotes or a comma before a closing
\* bracket, clean_json_response returns the text up to the whitespace around
\* it, and the result parses to the same value.
C21_CleaningValidJsonIsNoOp ==
    ValidAnswer => CleaningIsNoOp

\* the text holds something the clean-up rewrites: a fence, the start of a
\* line or block comment, a comma that a closing brace or bracket follows
HoldsCleanedForm(text) ==
    \/ Contains(text, Fence)
    \/ Contains(text, "//")
    \/ \E i \in Occurrences(text, "/*") : \E j \in Occurrences(text, "*/") : j >= i + 2
    \/ RemoveTrailingCommas(text) # text

\* valid JSON that holds none of these forms is left as it was
CleaningPlainJsonIsNoOp ==
    (ValidAnswer /\ ~HoldsCleanedForm(refine.result.backend.text)) => CleaningIsNoOp

\* the resolver has just been applied to a query and a warehouse list
Resolved == refine.phase = "resolved"

\* the code is C-N with C a non-empty run of letters and spaces and N a
\* run of digits, and the query is C, a space and N in some letter case
IsSpaceFormOf(query, code) ==
    LET CityAndNumber(parts) ==
            /\ Len(parts) = 2
            /\ parts[1] # ""
            /\ \A i \in 1..Len(parts[1]) :
                   Ch(parts[1], i) \in Chars(UpperLetters) \cup {" "}
            /\ IsDigit(parts[2])
            /\ Upper(query) = parts[1] \o " " \o parts[2]
    IN  CityAndNumber(RSplit1(code, "-"))

\* the code the substring scan alone finds in the query, "" when none
ScanAlone(query_upper, valid_warehouses) ==
    LET First(inside) == IF inside = {} THEN "" ELSE valid_warehouses[Min(inside)]
    IN  First({i \in 1..Len(valid_warehouses) :
                 Contains(query_upper, valid_warehouses[i])})

\* C18: for every warehouse set and every code C-N in it (C letters and
\* spaces, N digits), the Filter Resolver applied to the query "C N", in any
\* letter case, returns C-N: the repair of the last space is tried before
\* the substring scan and wins over the code the scan would find.
C18_SpaceFormResolvesToCode ==
    Resolved =>
        \A code \in Range(refine.valid_warehouses) :
            IsSpaceFormOf(refine.query, code) => refine.code = code

\* the repaired code has been returned although the scan alone finds
\* another code of the set in the query
C18_Witness ==
    /\ Resolved
    /\ refine.query = "delhi 5"
    /\ refine.code = "DELHI-5"
    /\ IsSpaceFormOf(refine.query, refine.code)
    /\ ScanAlone(Strip(Upper(refine.query)), refine.valid_warehouses) = "DELHI"

\* C27: for every warehouse set, in the sorted order the loop passes it, and
\* every code W in it, the Filter Resolver applied to a query that is W in
\* some letter case returns W and no other code, also when the set holds a
\* code that is a substring of W.
C27_CodeResolvesToItself ==
    Resolved =>
        \A W \in Range(refine.valid_warehouses) :
            Upper(refine.query) = W => refine.code = W

\* what the resolver returns for a query that is a code of the set: the
\* first code, in the sorted order, that is a substring of it
CodeResolvesToFirstSubstring ==
    Resolved =>
        \A W \in Range(refine.valid_warehouses) :
            Upper(refine.query) = W =>
                refine.code = ScanAlone(W, refine.valid_warehouses)

\* the query is DELHI-52 and the resolver has answered with DELHI-5
ShorterCodeReturned ==
    /\ Resolved
    /\ refine.query = "Delhi-52"
    /\ "DELHI-52" \in Range(refine.valid_warehouses)
    /\ refine.code = "DELHI-5"

\* the loop has refined a query in the step
Refining == session'.turns = session.turns + 1

\* the step has refined a query and acted on one of the five statuses
RefiningWithStatus ==
    /\ Refining
    /\ session'.last.outcome \in
           {"executed", "invalid values", "clarification", "out of scope", "error"}

\* C16: after every exchange that reaches the refinement step, whatever the
\* refinement status, the conversation history has grown by exactly one user
\* turn holding the query followed by one assistant turn holding the reply,
\* and the earlier turns are unchanged.
C16_HistoryGrowsByOneExchange ==
    [][RefiningWithStatus =>
         /\ Len(session'.chat_history) = Len(session.chat_history) + 2
         /\ SubSeq(session'.chat_history, 1, Len(session.chat_history))
                = session.chat_history
         /\ session'.chat_history[Len(session.chat_history) + 1]
                = Message("user", Strip(session'.line))
         /\ session'.chat_history[Len(session.chat_history) + 2].role = "assistant"]_vars

\* the part of C16 that holds in every step: the history is only appended
\* to, by nothing or by one user turn holding the query and one assistant
\* turn, and a step that refined a query with a status other than ERROR
\* appended them
HistoryOnlyAppended ==
    [][/\ \/ session'.chat_history = session.chat_history
          \/ /\ Len(session'.chat_history) = Len(session.chat_history) + 2
             /\ SubSeq(session'.chat_history, 1, Len(session.chat_history))
                    = session.chat_history
             /\ session'.chat_history[Len(session.chat_history) + 1]
                    = Message("user", Strip(session'.line))
             /\ session'.chat_history[Len(session.chat_history) + 2].role = "assistant"
       /\ (Refining /\ session'.last.outcome \in
                {"executed", "invalid values", "clarification", "out of scope"})
            => Len(session'.chat_history) = Len(session.chat_history) + 2]_vars

\* the words that end the session
ExitWords == {"quit", "exit", "q", "bye"}

\* the last pass of the loop was a bad turn
BadTurn ==
    \/ session.last.outcome \in
           {"error", "unexpected error", "invalid values", "interrupted", "no branch"}
    \/ /\ session.last.outcome = "executed"
       /\ \E i \in 1..Len(session.last.printed) :
              Contains(session.last.printed[i], "CRITICAL ERROR during agent execution")

\* C17: once startup has succeeded the interactive loop ends only on an
\* explicit exit command (quit, exit, q, bye): no bad turn ends it, and
\* every failed turn produces a readable message to the user.
C17_LoopEndsOnlyOnExit ==
    /\ session.phase = "exited" => Lower(Strip(session.line)) \in ExitWords
    /\ BadTurn => (session.phase = "reading" /\ session.last.printed # <<>>)

\* the part of C17 that holds: no bad turn ends the loop, which ends on an
\* exit word or at the end of the input, and every bad turn but the one
\* whose refinement status is none of the four prints a message
BadTurnsKeepTheLoop ==
    /\ session.phase = "exited" =>
           \/ Lower(Strip(session.line)) \in ExitWords
           \/ session.last.outcome = "end of input"
    /\ BadTurn =>
           /\ session.phase = "reading"
           /\ session.last.outcome # "no branch" => session.last.printed # <<>>

\* a turn whose refinement result carries a status that is none of the four:
\* the loop has printed nothing
SilentTurn ==
    /\ session.last.outcome = "no branch"
    /\ session.last.printed = <<>>

\* the last turn failed validation and the loop has shown suggestions
SuggestionsShown ==
    /\ session.last.outcome = "invalid values"
    /\ Len(session.last.printed) > 1

\* the candidates a suggestion line offers
SuggestedCandidates(line) ==
    Range(Split(SubSeq(line, Len("   (i) Did you mean: ") + 1, Len(line) - 1), ", "))

\* C28: when a turn fails validation and the loop shows the user fuzzy
\* suggestions (Did you mean: ...), the assistant turn appended to the
\* conversation history for that exchange contains those suggested
\* candidates, so that the next refinement call sees them.
C28_SuggestionsReachHistory ==
    SuggestionsShown =>
        \A i \in 2..Len(session.last.printed) :
            \A candidate \in SuggestedCandidates(session.last.printed[i]) :
                Contains(session.last.appended[2].content, candidate)

\* what the loop appends when it has shown suggestions: the query and the
\* message naming the invalid values, which is the first line it printed;
\* the suggestion lines are printed only
SuggestionsOnlyPrinted ==
    SuggestionsShown =>
        /\ session.last.appended
               = Exchange(Strip(session.line), session.last.printed[1])
        /\ \A i \in 2..Len(session.last.printed) :
               /\ StartsWith(session.last.printed[i], "   (i) Did you mean: ")
               /\ ~Contains(session.last.appended[2].content, "Did you mean")

\* JAIPUR-58 was suggested for JAIPUR-5 and the history does not hold it
SuggestionMissingFromHistory ==
    /\ SuggestionsShown
    /\ "JAIPUR-58" \in SuggestedCandidates(session.last.printed[2])
    /\ ~Contains(session.chat_history[Len(session.chat_history)].content, "JAIPUR-58")

\* calculate_geographical_expenses has returned
Aggregated ==
    /\ agg.phase = "done"
    /\ agg.op = "calculate_geographical_expenses"
    /\ ~agg.result.raised

\* the master retrieval of the aggregation failed inside sql_executor
MasterRetrievalFailed ==
    /\ Aggregated
    /\ Len(agg.result.sent) >= 1
    /\ store.warehouse_db # "up"

\* the SUM query of the aggregation failed inside sql_executor
SumQueryFailed ==
    /\ Aggregated
    /\ Len(agg.result.sent) = 2
    /\ store.invoices_db # "up"

\* C29: if either store query of an aggregation fails inside sql_executor
\* (database error or unexpected exception on the master retrieval or on the
\* SUM query), calculate_geographical_expenses returns a string beginning
\* with the ERROR sentinel, never the success-formatted string (Total
\* expenses ... Warehouses matched) with a failure message embedded in it.
C29_StoreFailureIsError ==
    (MasterRetrievalFailed \/ SumQueryFailed) =>
        /\ StartsWith(agg.result.value, "ERROR")
        /\ ~StartsWith(agg.result.value, "Total expenses")

\* what the aggregator returns when a store query fails: a failed master
\* retrieval is reported as missing warehouse data, since the failure text
\* holds no row; a failed SUM query is reported as a success that embeds the
\* failure text
StoreFailureAsReturned ==
    /\ MasterRetrievalFailed =>
           agg.result.value = "ERROR: No warehouse data found in database."
    /\ SumQueryFailed =>
           /\ StartsWith(agg.result.value, "Total expenses (including GST) for ")
           /\ Contains(agg.result.value, "Warehouses matched: ")
           /\ \/ Contains(agg.result.value, "\nDATABASE ERROR on INVOICES: ")
              \/ Contains(agg.result.value, "\nUNEXPECTED ERROR: ")

\* the invoice database refused the connection and the aggregation has
\* returned the success format around the failure text
FailureEmbeddedInSuccess ==
    /\ SumQueryFailed
    /\ store.invoices_db = "down"
    /\ StartsWith(agg.result.value, "Total expenses")
    /\ Contains(agg.result.value, "DATABASE ERROR on INVOICES")

\* the city has an entry in the city-to-region table, and it is the region
MappedTo(city, region) == city \in DOMAIN REGION_MAP /\ REGION_MAP[city] = region

\* the cities of the warehouses an aggregation by REGION has matched
CitiesAggregated ==
    {extract_city_from_warehouse_code(Upper(Strip(row[2]))) :
        row \in {r \in store.master : r[1] \in Range(agg.result.matched)}}

\* the cities of the warehouses a listing by REGION has matched
CitiesListed ==
    {extract_city_from_warehouse_code(code) : code \in Range(agg.result.matched)}

\* the aggregator has returned from a call with REGION and one value
AggregatedByRegion ==
    /\ Aggregated
    /\ agg.arg.kind = "str"
    /\ Upper(Strip(agg.filter_type)) = "REGION"

\* list_warehouses_by_location has returned from a call with REGION
ListedByRegion ==
    /\ agg.phase = "done"
    /\ agg.op = "list_warehouses_by_location"
    /\ ~agg.result.raised
    /\ Upper(agg.filter_type) = "REGION"

\* C30: a REGION filter never matches a warehouse whose city has no entry in
\* the city-to-region table: for every filter value the aggregator and
\* list_warehouses_by_location accept, every matched warehouse's city is
\* mapped to that region in the table.
C30_RegionFilterMatchesMappedCities ==
    /\ AggregatedByRegion =>
           \A city \in CitiesAggregated : MappedTo(city, Upper(Strip(agg.arg.s)))
    /\ ListedByRegion =>
           \A city \in CitiesListed :
               \E i \in 1..Len(agg.arg.items) :
                   MappedTo(city, Upper(Strip(agg.arg.items[i])))

\* what a REGION filter matches: the warehouses whose city the lookup sends
\* to the filter value, the placeholder of the unmapped cities included
RegionFilterMatchesByLookup ==
    /\ AggregatedByRegion =>
           \A city \in CitiesAggregated :
               get_region_for_city(city) = Upper(Strip(agg.arg.s))
    /\ ListedByRegion =>
           \A city \in CitiesListed :
               \E i \in 1..Len(agg.arg.items) :
                   get_region_for_city(city) = Upper(Strip(agg.arg.items[i]))

\* the filter value REGION_UNKNOWN has selected DELHI, a city without an
\* entry in the table, in the aggregation
UnmappedCityAggregated ==
    /\ AggregatedByRegion
    /\ agg.arg.s = "REGION_UNKNOWN"
    /\ "DELHI" \in CitiesAggregated
    /\ "DELHI" \notin DOMAIN REGION_MAP

\* the filter value REGION_UNKNOWN has selected DELHI in the listing
UnmappedCityListed ==
    /\ ListedByRegion
    /\ agg.arg.items = <<"REGION_UNKNOWN">>
    /\ "DELHI" \in CitiesListed

\* the sum has been taken over the warehouse without a city
UnmappedWarehouseSummed ==
    /\ AggregatedByRegion
    /\ agg.arg.s = "REGION_UNKNOWN"
    /\ agg.result.matched = <<"7">>
    /\ StartsWith(agg.result.value, "Total expenses")

====
